---- MODULE Spec2Model ----
(***************************************************************************)
(* Model of paraCompare (src/src/index.tsx): extraction of {N} parameter   *)
(* tokens from text cells, per-record comparison against a baseline field, *)
(* the parameter edit modal with its cycle resolver, and the substitution  *)
(* of tokens in cell text.                                                 *)
(*                                                                         *)
(* A text is a sequence of one-character strings.  A cell value of the     *)
(* host is a record [kind, items]; a list cell holds segments              *)
(* [type, hasText, text].                                                  *)
(***************************************************************************)
EXTENDS Integers, Sequences, FiniteSets, TLC

VARIABLES
    record,             \* extractParametersFromRecord: the record argument (fieldId -> cell)
    paramInfo,          \* extractParametersFromRecord: the returned ParameterInfo[]
    extracted,          \* whether extractParametersFromRecord has returned
    table,              \* host: the records of the active table, in fetch order
    fieldOptions,       \* App state: FieldOption[] of the field dropdown
    selectedFields,     \* App state: ids of the fields opted into the comparison
    comparisons,        \* App state: the published RecordComparison[]
    isComparing,        \* App state: the flag that disables the compare button
    floatingMessage,    \* App state: the status message
    runs,               \* the compareAllRecords invocations in flight
    lastRun,            \* history: what the run that last called setComparisons had read
    groupReplacements,  \* ParameterEditModal state: per group, parameter -> entered string
    resolution,         \* detectAndFixCircularReplacements(groupReplacements): the outcome of the call
    cellText,           \* replaceParameters: cell.text of the field being rewritten
    entries,            \* replaceParameters: paramReplacements of that field, parameter -> number
    newText,            \* replaceParameters: newText of the loop over the entries
    applied,            \* replaceParameters: number of entries the loop has been through
    editingRecord,      \* App state: <<>> for null, else <<the RecordComparison being edited>>
    parameterGroups,    \* ParameterEditModal state: the groups [paramKey, fields] in property order
    isValid,            \* ParameterEditModal state
    errorMessage,       \* ParameterEditModal state: "", "circularFixed" or "invalidValue"
    autoFixed,          \* ParameterEditModal state
    hung,               \* the validation effect is in a loop that does not end; no handler runs any more
    edits,              \* history: number of change events of the modal's inputs
    saveClicks,         \* history: number of clicks on the modal's save button
    saves,              \* the replaceParameters invocations in flight
    toastMessage        \* App state: "", "success" or "error"

extractVars == <<record, paramInfo, extracted>>
hostVars == <<table>>
selectionVars == <<fieldOptions, selectedFields>>
batchVars == <<comparisons, isComparing, floatingMessage, runs, lastRun>>
resolverVars == <<groupReplacements, resolution>>
replaceVars == <<cellText, entries, newText, applied>>
modalVars == <<editingRecord, parameterGroups, isValid, errorMessage, autoFixed, hung,
               edits, saveClicks>>
saveVars == <<saves, toastMessage>>

vars == <<record, paramInfo, extracted, table, fieldOptions, selectedFields,
          comparisons, isComparing, floatingMessage, runs, lastRun,
          groupReplacements, resolution, cellText, entries, newText, applied,
          editingRecord, parameterGroups, isValid, errorMessage, autoFixed, hung,
          edits, saveClicks, saves, toastMessage>>

-----------------------------------------------------------------------------
(* Bounds of the model *)

\* longest text enumerated character by character
MaxTextLen == 5

\* records the host returns per page of getRecords (the code asks for 1000)
PageSize == 2

\* longest replacement value enumerated character by character
MaxInputLen == 1

\* change events of the modal's inputs per behaviour
MaxEdits == 2

\* clicks on the modal's save button per behaviour
MaxSaveClicks == 1

-----------------------------------------------------------------------------
(* Characters and texts *)

DigitChars == {"0", "1", "2", "3", "4", "5", "6", "7", "8", "9"}

\* characters the enumerated texts are built from
Alphabet == {"{", "}", "1", "2", "a"}

\* numeric value of one decimal digit character
DigitVal(c) ==
    CASE c = "0" -> 0 [] c = "1" -> 1 [] c = "2" -> 2 [] c = "3" -> 3
      [] c = "4" -> 4 [] c = "5" -> 5 [] c = "6" -> 6 [] c = "7" -> 7
      [] c = "8" -> 8 [] c = "9" -> 9

IsDigit(c) == c \in DigitChars

\* every text of at most n characters over Alphabet
TextsUpTo(n) == UNION {[1..k -> Alphabet] : k \in 0..n}

\* texts of the specification's examples, longer than MaxTextLen
ExampleTexts ==
    { <<"{", "3", "}", "{", "1", "}", "{", "2", "}">>,
      <<"{", "1", "}", "{", "1", "}">>,
      <<"{", "1", "}", "{", "2", "}">>,
      <<"{", "2", "}", "{", "1", "}">>,
      <<"{", "1", "}", "{", "3", "}">>,
      <<"a", "{", "1", "0", "}", "{", "0", "1", "}">>,
      <<"{", "1", "2", "}", "{", "2", "}", "{", "1", "}">> }

Texts == TextsUpTo(MaxTextLen) \cup ExampleTexts

-----------------------------------------------------------------------------
(* Regular expression /\{(\d+)\}/g, parseInt and Array.prototype.sort *)

\* first index at or after i that holds no digit: the end of the run \d+
RECURSIVE DigitRunEnd(_, _)
DigitRunEnd(s, i) ==
    IF i <= Len(s) /\ IsDigit(s[i]) THEN DigitRunEnd(s, i + 1) ELSE i

\* index of the closing brace of a match of \{(\d+)\} starting at i, or 0
MatchAt(s, i) ==
    IF s[i] = "{"
    THEN LET e == DigitRunEnd(s, i + 1)
         IN  IF e > i + 1 /\ e <= Len(s) /\ s[e] = "}" THEN e ELSE 0
    ELSE 0

\* text.match(/\{(\d+)\}/g) from index i: the matched substrings, left to
\* right and not overlapping (the empty sequence stands for null)
RECURSIVE MatchAll(_, _)
MatchAll(s, i) ==
    IF i > Len(s) THEN <<>>
    ELSE LET e == MatchAt(s, i)
         IN  IF e > 0 THEN <<SubSeq(s, i, e)>> \o MatchAll(s, e + 1)
             ELSE MatchAll(s, i + 1)

\* match.replace(/[{}]/g, '')
StripBraces(m) == SelectSeq(m, LAMBDA c : c # "{" /\ c # "}")

\* parseInt of a string of decimal digits
RECURSIVE ParseInt(_)
ParseInt(d) ==
    IF Len(d) = 0 THEN 0
    ELSE 10 * ParseInt(SubSeq(d, 1, Len(d) - 1)) + DigitVal(d[Len(d)])

\* insertion of x into an ascending sequence, after the elements equal to it
RECURSIVE InsertAsc(_, _)
InsertAsc(x, s) ==
    IF Len(s) = 0 THEN <<x>>
    ELSE IF x < Head(s) THEN <<x>> \o s
    ELSE <<Head(s)>> \o InsertAsc(x, Tail(s))

\* a mutant of SortAsc: the sort is left out
SortAscSkipped(s) == s

\* numbers.sort((a, b) => a - b)
RECURSIVE SortAsc(_)
SortAsc(s) ==
    IF Len(s) = 0 THEN <<>>
    ELSE InsertAsc(s[Len(s)], SortAsc(SubSeq(s, 1, Len(s) - 1)))

\* matches.map(match => parseInt(match.replace(/[{}]/g, ''))).sort(...)
ExtractNumbers(text) ==
    LET matches == MatchAll(text, 1)
    IN  SortAsc([i \in 1..Len(matches) |-> ParseInt(StripBraces(matches[i]))])

-----------------------------------------------------------------------------
(* Host collaborator: fields, view order and cell values *)

\* table.getFieldList(): every field of the table, in the table's own order
FieldList == <<"fldB", "fldIdx", "fldA">>

\* view.getFieldMetaList(): the fields in view order; the first is the index field
FieldMetaList == <<"fldIdx", "fldA", "fldB">>

FieldIds == {FieldList[i] : i \in 1..Len(FieldList)}

\* FieldMeta.name of a field id
NameOf(id) ==
    CASE id = "fldIdx" -> "Idx" [] id = "fldA" -> "A" [] id = "fldB" -> "B"
      [] OTHER -> id

\* Number.MAX_SAFE_INTEGER, the order of a field that is not in the view: it
\* is only compared with view positions, so the largest 32-bit integer stands
\* for 2^53 - 1
MaxSafeInteger == 2147483647

\* cell value shapes of the host
CellAbsent == [kind |-> "absent", items |-> <<>>]
CellScalar == [kind |-> "scalar", items |-> <<>>]
CellList(items) == [kind |-> "list", items |-> items]

\* segments of a list cell
SegText(t) == [type |-> "text", hasText |-> TRUE, text |-> t]
SegUrl(t) == [type |-> "url", hasText |-> TRUE, text |-> t]
SegObject == [type |-> "none", hasText |-> FALSE, text |-> <<>>]

TextCell(t) == CellList(<<SegText(t)>>)

\* cells that are not a single text segment
OddCells ==
    { CellAbsent, CellScalar, CellList(<<>>), CellList(<<SegObject>>),
      CellList(<<SegUrl(<<"{", "1", "}">>)>>),
      CellList(<<SegObject, SegText(<<"{", "1", "}">>)>>),
      CellList(<<[type |-> "text", hasText |-> FALSE, text |-> <<>>]>>),
      CellList(<<SegText(<<"{", "2", "}">>), SegUrl(<<"{", "1", "}">>)>>),
      CellList(<<SegText(<<"a">>), SegText(<<"{", "1", "}">>)>>) }

-----------------------------------------------------------------------------
(* extractParametersFromRecord *)

\* the guards of lines 524-526: a non-empty array whose first element is a text cell
IsTextCell(cellValue) ==
    /\ cellValue.kind = "list"
    /\ Len(cellValue.items) > 0
    /\ cellValue.items[1].type = "text"
    /\ cellValue.items[1].hasText

\* fieldMetaList.indexOf(fieldMeta), or MAX_SAFE_INTEGER when the field is not in the view
OrderOf(fieldId, fieldMetaList) ==
    IF \E i \in 1..Len(fieldMetaList) : fieldMetaList[i] = fieldId
    THEN (CHOOSE i \in 1..Len(fieldMetaList) : fieldMetaList[i] = fieldId) - 1
    ELSE MaxSafeInteger

\* a mutant of FieldEntry: a text cell without tokens still yields an entry
FieldEntryAlways(rec, fieldId, fieldMetaList) ==
    IF IsTextCell(rec[fieldId])
    THEN << [ fieldName |-> NameOf(fieldId), fieldId |-> fieldId,
              parameters |-> ExtractNumbers(rec[fieldId].items[1].text),
              order |-> OrderOf(fieldId, fieldMetaList) ] >>
    ELSE <<>>

\* the body of the loop over fields: the entry pushed for one field, if any
FieldEntry(rec, fieldId, fieldMetaList) ==
    IF IsTextCell(rec[fieldId]) /\ MatchAll(rec[fieldId].items[1].text, 1) # <<>>
    THEN << [ fieldName |-> NameOf(fieldId), fieldId |-> fieldId,
              parameters |-> ExtractNumbers(rec[fieldId].items[1].text),
              order |-> OrderOf(fieldId, fieldMetaList) ] >>
    ELSE <<>>

\* insertion of entry p into a sequence ascending by order, after equal orders
RECURSIVE InsertByOrder(_, _)
InsertByOrder(p, s) ==
    IF Len(s) = 0 THEN <<p>>
    ELSE IF p.order < Head(s).order THEN <<p>> \o s
    ELSE <<Head(s)>> \o InsertByOrder(p, Tail(s))

\* a mutant of SortByOrder: the entries stay in the order of the field list
SortByOrderSkipped(s) == s

\* paramInfo.sort((a, b) => a.order - b.order), a stable sort
RECURSIVE SortByOrder(_)
SortByOrder(s) ==
    IF Len(s) = 0 THEN <<>>
    ELSE InsertByOrder(s[Len(s)], SortByOrder(SubSeq(s, 1, Len(s) - 1)))

\* the entries pushed by the loop over the first n fields
RECURSIVE PushedEntries(_, _, _, _)
PushedEntries(rec, fields, fieldMetaList, n) ==
    IF n = 0 THEN <<>>
    ELSE PushedEntries(rec, fields, fieldMetaList, n - 1)
         \o FieldEntry(rec, fields[n], fieldMetaList)

extractParametersFromRecord(rec, fields, fieldMetaList) ==
    SortByOrder(PushedEntries(rec, fields, fieldMetaList, Len(fields)))


-----------------------------------------------------------------------------
(* The App component: state after mount, with no table content *)

\* options built by initializeFieldOptions: the visible fields after the index field
InitialOptions ==
    [i \in 1..(Len(FieldMetaList) - 1) |->
        [id |-> FieldMetaList[i + 1], name |-> NameOf(FieldMetaList[i + 1]), selected |-> TRUE]]

NoRun == [selected |-> <<>>, allRecords |-> <<>>]

AppIdle ==
    /\ table = <<>>
    /\ fieldOptions = InitialOptions
    /\ selectedFields = [i \in 1..Len(InitialOptions) |-> InitialOptions[i].id]
    /\ comparisons = <<>>
    /\ isComparing = FALSE
    /\ floatingMessage = ""
    /\ runs = <<>>
    /\ lastRun = NoRun


\* the modal is not mounted and the resolver has not been called
NotCalled == [called |-> FALSE, returns |-> FALSE, hasCircular |-> FALSE,
              fixedReplacements |-> <<>>]

ResolverIdle ==
    /\ groupReplacements = <<>>
    /\ resolution = NotCalled

\* no cell is being rewritten
ReplaceIdle ==
    /\ cellText = <<>>
    /\ entries = <<>>
    /\ newText = <<>>
    /\ applied = 0

\* lines 45-50 and 516: no record is being edited, the modal is not mounted
ModalIdle ==
    /\ editingRecord = <<>>
    /\ parameterGroups = <<>>
    /\ isValid = TRUE
    /\ errorMessage = ""
    /\ autoFixed = FALSE
    /\ hung = FALSE
    /\ edits = 0
    /\ saveClicks = 0

\* line 514: no replaceParameters call is in flight
SaveIdle ==
    /\ saves = <<>>
    /\ toastMessage = ""

-----------------------------------------------------------------------------
(* compareAllRecords: the comparison of one record and of all of them *)

Includes(seq, x) == \E i \in 1..Len(seq) : seq[i] = x

RemoveAt(seq, i) == SubSeq(seq, 1, i - 1) \o SubSeq(seq, i + 1, Len(seq))

\* a mutant of Differences: the selection is not consulted
DifferencesOfAllFields(params, selected) ==
    LET baseParams == params[1].parameters
        differs(i) == SortAsc(baseParams) # SortAsc(params[i].parameters)
        idx == SelectSeq([i \in 1..(Len(params) - 1) |-> i + 1], differs)
    IN  [k \in 1..Len(idx) |->
            [ fieldName |-> params[idx[k]].fieldName,
              expected |-> baseParams,
              actual |-> params[idx[k]].parameters ]]

\* lines 607-626: the differences of a record, one per selected field after
\* the first whose sorted parameters differ from the sorted baseline
Differences(params, selected) ==
    LET baseParams == params[1].parameters
        differs(i) ==
            /\ Includes(selected, params[i].fieldId)
            /\ SortAsc(baseParams) # SortAsc(params[i].parameters)
        idx == SelectSeq([i \in 1..(Len(params) - 1) |-> i + 1], differs)
    IN  [k \in 1..Len(idx) |->
            [ fieldName |-> params[idx[k]].fieldName,
              expected |-> baseParams,
              actual |-> params[idx[k]].parameters ]]

\* lines 631-641: the record's name, from the index field or from its id
RecordName(rec, fieldMetaList) ==
    LET indexFieldValue == rec.fields[fieldMetaList[1]]
    IN  IF IsTextCell(indexFieldValue) /\ indexFieldValue.items[1].text # <<>>
        THEN indexFieldValue.items[1].text
        ELSE <<"Record ", rec.recordId>>

\* a mutant of AllFieldParams: only the fields that differ from the baseline
AllFieldParamsOfMismatches(params, selected) ==
    LET d == Differences(params, selected)
    IN  [k \in 1..Len(d) |-> [fieldName |-> d[k].fieldName, parameters |-> d[k].actual]]

\* lines 644-649: the parameters of every selected field
AllFieldParams(params, selected) ==
    LET sel == SelectSeq(params, LAMBDA q : Includes(selected, q.fieldId))
    IN  [k \in 1..Len(sel) |->
            [fieldName |-> sel[k].fieldName, parameters |-> sel[k].parameters]]

\* a mutant of RecordResult: the skip of records with fewer than two entries
\* is gone and the baseline is the index field's cell, with or without tokens
RecordResultIndexBaseline(rec, fields, fieldMetaList, selected) ==
    LET params == extractParametersFromRecord(rec.fields, fields, fieldMetaList)
        base == [ fieldName |-> NameOf(fieldMetaList[1]), fieldId |-> fieldMetaList[1],
                  parameters |->
                      IF IsTextCell(rec.fields[fieldMetaList[1]])
                      THEN ExtractNumbers(rec.fields[fieldMetaList[1]].items[1].text)
                      ELSE <<>>,
                  order |-> 0 ]
        rest == SelectSeq(params, LAMBDA q : q.fieldId # fieldMetaList[1])
    IN  IF Len(Differences(<<base>> \o rest, selected)) > 0
        THEN << [ recordId |-> rec.recordId,
                  recordName |-> RecordName(rec, fieldMetaList),
                  differences |-> AllFieldParams(params, selected) ] >>
        ELSE <<>>

\* the body of the loop over allRecords (lines 589-657): the RecordComparison
\* pushed for one record, if any
RecordResult(rec, fields, fieldMetaList, selected) ==
    LET params == extractParametersFromRecord(rec.fields, fields, fieldMetaList)
    IN  IF Len(params) < 2 THEN <<>>
        ELSE IF Len(Differences(params, selected)) > 0
        THEN << [ recordId |-> rec.recordId,
                  recordName |-> RecordName(rec, fieldMetaList),
                  differences |-> AllFieldParams(params, selected) ] >>
        ELSE <<>>

\* a mutant of CompareRecords: each result is put in front of the earlier ones
RECURSIVE CompareRecordsReversed(_, _, _, _, _)
CompareRecordsReversed(allRecords, fields, fieldMetaList, selected, n) ==
    IF n = 0 THEN <<>>
    ELSE RecordResult(allRecords[n], fields, fieldMetaList, selected)
         \o CompareRecordsReversed(allRecords, fields, fieldMetaList, selected, n - 1)

\* the comparisons pushed for the first n records
RECURSIVE CompareRecords(_, _, _, _, _)
CompareRecords(allRecords, fields, fieldMetaList, selected, n) ==
    IF n = 0 THEN <<>>
    ELSE CompareRecords(allRecords, fields, fieldMetaList, selected, n - 1)
         \o RecordResult(allRecords[n], fields, fieldMetaList, selected)

\* host: table.getRecords({pageSize, pageToken}); a page token is the index
\* of the next record, 0 stands for undefined
PageRecords(tbl, pageToken) ==
    LET from == IF pageToken = 0 THEN 1 ELSE pageToken
        to == IF from + PageSize - 1 < Len(tbl) THEN from + PageSize - 1 ELSE Len(tbl)
    IN  SubSeq(tbl, from, to)

NextPageToken(tbl, pageToken) ==
    LET from == IF pageToken = 0 THEN 1 ELSE pageToken
    IN  IF from + PageSize <= Len(tbl) THEN from + PageSize ELSE 0

\* the compare button (lines 892-894), enabled while isComparing is false:
\* compareAllRecords up to its first await
StartCompare ==
    /\ ~isComparing
    /\ isComparing' = TRUE
    /\ floatingMessage' = "start"
    /\ runs' = Append(runs, [ pc |-> "meta", selected |-> selectedFields,
                              allRecords |-> <<>>, pageToken |-> 0 ])
    /\ UNCHANGED <<comparisons, lastRun>>

\* lines 555-558: the table, the view, the field list and the view's field metas arrive
FetchMeta(i) ==
    /\ runs[i].pc = "meta"
    /\ runs' = [runs EXCEPT ![i].pc = "pages"]
    /\ UNCHANGED <<comparisons, isComparing, floatingMessage, lastRun>>

\* lines 565-578: one page of records arrives; after the last one the
\* comparison is due
FetchPage(i) ==
    /\ runs[i].pc = "pages"
    /\ LET token == NextPageToken(table, runs[i].pageToken)
           all == runs[i].allRecords \o PageRecords(table, runs[i].pageToken)
       IN  /\ runs' = [runs EXCEPT ![i].allRecords = all,
                                   ![i].pageToken = token,
                                   ![i].pc = IF token # 0 THEN "pages" ELSE "compare"]
           /\ floatingMessage' = IF token # 0 THEN "fetching" ELSE "total"
    /\ UNCHANGED <<comparisons, isComparing, lastRun>>

\* lines 580-583 and 664-666: no record was fetched
CompareNone(i) ==
    /\ runs[i].pc = "compare"
    /\ runs[i].allRecords = <<>>
    /\ floatingMessage' = "none"
    /\ isComparing' = FALSE
    /\ runs' = RemoveAt(runs, i)
    /\ UNCHANGED <<comparisons, lastRun>>

\* lines 585-660 and 664-666: every record is compared and the result published
CompareAll(i) ==
    /\ runs[i].pc = "compare"
    /\ runs[i].allRecords # <<>>
    /\ comparisons' = CompareRecords(runs[i].allRecords, FieldList, FieldMetaList,
                                     runs[i].selected, Len(runs[i].allRecords))
    /\ lastRun' = [selected |-> runs[i].selected, allRecords |-> runs[i].allRecords]
    /\ floatingMessage' = "done"
    /\ isComparing' = FALSE
    /\ runs' = RemoveAt(runs, i)

\* a mutant of CompareFail: the records fetched before the failure are
\* compared and published
CompareFailPublishing(i) ==
    /\ runs[i].pc \in {"meta", "pages"}
    /\ comparisons' = CompareRecords(runs[i].allRecords, FieldList, FieldMetaList,
                                     runs[i].selected, Len(runs[i].allRecords))
    /\ floatingMessage' = "error"
    /\ isComparing' = FALSE
    /\ runs' = RemoveAt(runs, i)
    /\ UNCHANGED lastRun

\* lines 661-666: a host call of the run fails
CompareFail(i) ==
    /\ runs[i].pc \in {"meta", "pages"}
    /\ floatingMessage' = "error"
    /\ isComparing' = FALSE
    /\ runs' = RemoveAt(runs, i)
    /\ UNCHANGED <<comparisons, lastRun>>

-----------------------------------------------------------------------------
(* Field selection *)

OptionIds == {fieldOptions[i].id : i \in 1..Len(fieldOptions)}

\* a mutant of handleFieldSelectionChange: the id of an option switched off
\* stays in selectedFields
handleFieldSelectionChangeKeeping(fieldId) ==
    /\ fieldOptions' = [i \in 1..Len(fieldOptions) |->
            IF fieldOptions[i].id = fieldId
            THEN [fieldOptions[i] EXCEPT !.selected = ~fieldOptions[i].selected]
            ELSE fieldOptions[i]]
    /\ selectedFields' =
            IF Includes(selectedFields, fieldId)
            THEN selectedFields
            ELSE Append(selectedFields, fieldId)

handleFieldSelectionChange(fieldId) ==
    /\ fieldOptions' = [i \in 1..Len(fieldOptions) |->
            IF fieldOptions[i].id = fieldId
            THEN [fieldOptions[i] EXCEPT !.selected = ~fieldOptions[i].selected]
            ELSE fieldOptions[i]]
    /\ selectedFields' =
            IF Includes(selectedFields, fieldId)
            THEN SelectSeq(selectedFields, LAMBDA id : id # fieldId)
            ELSE Append(selectedFields, fieldId)

selectAllFields ==
    /\ fieldOptions' = [i \in 1..Len(fieldOptions) |-> [fieldOptions[i] EXCEPT !.selected = TRUE]]
    /\ selectedFields' = [i \in 1..Len(fieldOptions) |-> fieldOptions[i].id]

deselectAllFields ==
    /\ fieldOptions' = [i \in 1..Len(fieldOptions) |-> [fieldOptions[i] EXCEPT !.selected = FALSE]]
    /\ selectedFields' = <<>>

\* lines 763-770: the options of the visible fields after the index field
OptionsOf(fieldMetaList, visibleFields) ==
    LET rest == SelectSeq(Tail(fieldMetaList), LAMBDA id : id \in visibleFields)
    IN  [i \in 1..Len(rest) |-> [id |-> rest[i], name |-> NameOf(rest[i]), selected |-> TRUE]]

\* lines 754-779: initializeFieldOptions, at mount and at every change of the
\* host's selection; visibleFields is what view.getVisibleFieldIdList
\* returns.  The two states are set together after the last await; a failed
\* host call sets nothing.
initializeFieldOptions(visibleFields) ==
    LET options == OptionsOf(FieldMetaList, visibleFields)
    IN  /\ fieldOptions' = options
        /\ selectedFields' = [i \in 1..Len(options) |-> options[i].id]

-----------------------------------------------------------------------------
(* Specification SpecBatch: batch runs started from the compare button *)

\* cells of the token-bearing fields of the enumerated records
BatchCells ==
    { TextCell(<<"{", "1", "}", "{", "2", "}">>),
      TextCell(<<"{", "2", "}", "{", "1", "}">>),
      TextCell(<<"{", "1", "}", "{", "3", "}">>),
      TextCell(<<"{", "1", "}">>),
      TextCell(<<"a">>),
      CellAbsent }

Rec(id, idx, a, b) ==
    [ recordId |-> id,
      fields |-> [f \in FieldIds |->
                    CASE f = "fldIdx" -> idx [] f = "fldA" -> a [] OTHER -> b] ]

\* records 2 and 3 of the end-to-end example
ExampleRec2 ==
    Rec("rec2", TextCell(<<"b">>), TextCell(<<"{", "1", "}", "{", "2", "}">>),
        TextCell(<<"{", "2", "}", "{", "1", "}">>))

ExampleRec3 ==
    Rec("rec3", CellAbsent, TextCell(<<"{", "1", "}", "{", "2", "}">>),
        TextCell(<<"{", "1", "}", "{", "3", "}">>))

\* the first record sweeps every combination of cells; the table holds it
\* alone, or followed by the two example records, or nothing
BatchTables ==
    {<<>>}
    \cup { <<Rec("rec1", idx, a, b)>> \o rest :
             idx \in {TextCell(<<"a">>), TextCell(<<"{", "1", "}", "{", "2", "}">>)},
             a \in BatchCells, b \in BatchCells,
             rest \in {<<>>, <<ExampleRec2, ExampleRec3>>} }

InitBatch ==
    /\ record = [f \in FieldIds |-> CellAbsent]
    /\ paramInfo = <<>>
    /\ extracted = FALSE
    /\ table \in BatchTables
    /\ fieldOptions = InitialOptions
    /\ selectedFields = [i \in 1..Len(InitialOptions) |-> InitialOptions[i].id]
    /\ comparisons = <<>>
    /\ isComparing = FALSE
    /\ floatingMessage = ""
    /\ runs = <<>>
    /\ lastRun = NoRun
    /\ ResolverIdle
    /\ ReplaceIdle
    /\ ModalIdle
    /\ SaveIdle

NextBatch ==
    \/ StartCompare /\ UNCHANGED <<extractVars, hostVars, selectionVars, resolverVars, replaceVars, modalVars, saveVars>>
    \/ \E i \in 1..Len(runs) :
          FetchMeta(i) /\ UNCHANGED <<extractVars, hostVars, selectionVars, resolverVars, replaceVars, modalVars, saveVars>>
    \/ \E i \in 1..Len(runs) :
          FetchPage(i) /\ UNCHANGED <<extractVars, hostVars, selectionVars, resolverVars, replaceVars, modalVars, saveVars>>
    \/ \E i \in 1..Len(runs) :
          CompareNone(i) /\ UNCHANGED <<extractVars, hostVars, selectionVars, resolverVars, replaceVars, modalVars, saveVars>>
    \/ \E i \in 1..Len(runs) :
          CompareAll(i) /\ UNCHANGED <<extractVars, hostVars, selectionVars, resolverVars, replaceVars, modalVars, saveVars>>
    \/ \E i \in 1..Len(runs) :
          CompareFail(i) /\ UNCHANGED <<extractVars, hostVars, selectionVars, resolverVars, replaceVars, modalVars, saveVars>>
    \/ \E f \in OptionIds :
          handleFieldSelectionChange(f)
          /\ UNCHANGED <<extractVars, hostVars, batchVars, resolverVars, replaceVars, modalVars, saveVars>>
    \/ selectAllFields /\ UNCHANGED <<extractVars, hostVars, batchVars, resolverVars, replaceVars, modalVars, saveVars>>
    \/ deselectAllFields /\ UNCHANGED <<extractVars, hostVars, batchVars, resolverVars, replaceVars, modalVars, saveVars>>

SpecBatch == InitBatch /\ [][NextBatch]_vars

-----------------------------------------------------------------------------
(* Specification SpecSelection: the field options from the mount of the App *)
(* on, with the runs that read the selection                                *)

SelectionTables ==
    { <<ExampleRec2, ExampleRec3>>,
      <<ExampleRec3, ExampleRec2, ExampleRec3>> }

\* lines 509-516: the state of the App at mount
InitSelection ==
    /\ record = [f \in FieldIds |-> CellAbsent]
    /\ paramInfo = <<>>
    /\ extracted = FALSE
    /\ table \in SelectionTables
    /\ fieldOptions = <<>>
    /\ selectedFields = <<>>
    /\ comparisons = <<>>
    /\ isComparing = FALSE
    /\ floatingMessage = ""
    /\ runs = <<>>
    /\ lastRun = NoRun
    /\ ResolverIdle
    /\ ReplaceIdle
    /\ ModalIdle
    /\ SaveIdle

NextSelection ==
    \/ \E visibleFields \in SUBSET {FieldMetaList[i] : i \in 1..Len(FieldMetaList)} :
          initializeFieldOptions(visibleFields)
          /\ UNCHANGED <<extractVars, hostVars, batchVars, resolverVars, replaceVars, modalVars, saveVars>>
    \/ \E f \in OptionIds :
          handleFieldSelectionChange(f)
          /\ UNCHANGED <<extractVars, hostVars, batchVars, resolverVars, replaceVars, modalVars, saveVars>>
    \/ selectAllFields /\ UNCHANGED <<extractVars, hostVars, batchVars, resolverVars, replaceVars, modalVars, saveVars>>
    \/ deselectAllFields /\ UNCHANGED <<extractVars, hostVars, batchVars, resolverVars, replaceVars, modalVars, saveVars>>
    \/ StartCompare /\ UNCHANGED <<extractVars, hostVars, selectionVars, resolverVars, replaceVars, modalVars, saveVars>>
    \/ \E i \in 1..Len(runs) :
          FetchMeta(i) /\ UNCHANGED <<extractVars, hostVars, selectionVars, resolverVars, replaceVars, modalVars, saveVars>>
    \/ \E i \in 1..Len(runs) :
          FetchPage(i) /\ UNCHANGED <<extractVars, hostVars, selectionVars, resolverVars, replaceVars, modalVars, saveVars>>
    \/ \E i \in 1..Len(runs) :
          CompareAll(i) /\ UNCHANGED <<extractVars, hostVars, selectionVars, resolverVars, replaceVars, modalVars, saveVars>>
    \/ \E i \in 1..Len(runs) :
          CompareFail(i) /\ UNCHANGED <<extractVars, hostVars, selectionVars, resolverVars, replaceVars, modalVars, saveVars>>

SpecSelection == InitSelection /\ [][NextSelection]_vars


-----------------------------------------------------------------------------
(* JavaScript numbers of the replacement values: Number(string), isNaN and  *)
(* the conversion of a number to a string.  A number is a record            *)
(* [nan, int, frac]: frac holds the fraction digits without trailing zeros. *)
(* The enumerated inputs hold no sign, exponent or radix prefix.            *)

NaN == [nan |-> TRUE, int |-> 0, frac |-> <<>>]

Num(n) == [nan |-> FALSE, int |-> n, frac |-> <<>>]

IsSpace(c) == c = " "

\* String.prototype.trim as StringToNumber applies it
RECURSIVE TrimLeft(_)
TrimLeft(s) == IF Len(s) > 0 /\ IsSpace(s[1]) THEN TrimLeft(Tail(s)) ELSE s

RECURSIVE TrimRight(_)
TrimRight(s) ==
    IF Len(s) > 0 /\ IsSpace(s[Len(s)]) THEN TrimRight(SubSeq(s, 1, Len(s) - 1)) ELSE s

RECURSIVE StripTrailingZeros(_)
StripTrailingZeros(d) ==
    IF Len(d) > 0 /\ d[Len(d)] = "0" THEN StripTrailingZeros(SubSeq(d, 1, Len(d) - 1)) ELSE d

AllDigits(s) == \A i \in 1..Len(s) : IsDigit(s[i])

\* Number(s): the empty or blank string is 0, a decimal numeral its value,
\* anything else NaN
Number(s) ==
    LET t == TrimRight(TrimLeft(s))
        dots == {i \in 1..Len(t) : t[i] = "."}
    IN  IF t = <<>> THEN Num(0)
        ELSE IF AllDigits(t) THEN Num(ParseInt(t))
        ELSE IF Cardinality(dots) = 1 /\ Len(t) > 1
        THEN LET d == CHOOSE i \in dots : TRUE
                 ip == SubSeq(t, 1, d - 1)
                 fp == SubSeq(t, d + 1, Len(t))
             IN  IF AllDigits(ip) /\ AllDigits(fp)
                 THEN [nan |-> FALSE, int |-> ParseInt(ip), frac |-> StripTrailingZeros(fp)]
                 ELSE NaN
        ELSE NaN

isNaN(x) == x.nan

IsInteger(x) == ~x.nan /\ x.frac = <<>>

DigitChar(d) ==
    CASE d = 0 -> "0" [] d = 1 -> "1" [] d = 2 -> "2" [] d = 3 -> "3" [] d = 4 -> "4"
      [] d = 5 -> "5" [] d = 6 -> "6" [] d = 7 -> "7" [] d = 8 -> "8" [] d = 9 -> "9"

\* the decimal numeral of a non-negative integer
RECURSIVE IntToText(_)
IntToText(n) ==
    IF n < 10 THEN <<DigitChar(n)>> ELSE IntToText(n \div 10) \o <<DigitChar(n % 10)>>

\* the string of a number (template literals and property keys)
NumberToText(x) ==
    IF x.nan THEN <<"N", "a", "N">>
    ELSE IF x.frac = <<>> THEN IntToText(x.int)
    ELSE IntToText(x.int) \o <<".">> \o x.frac

\* the ascending sequence of a finite set of integers: the order in which
\* Object.entries lists integer keys
RECURSIVE SetToAscSeq(_)
SetToAscSeq(S) ==
    IF S = {} THEN <<>>
    ELSE LET x == CHOOSE y \in S : \A z \in S : y <= z
         IN  <<x>> \o SetToAscSeq(S \ {x})

\* Array.prototype.join(',') of a list of parameters
RECURSIVE JoinComma(_)
JoinComma(nums) ==
    IF Len(nums) = 0 THEN <<>>
    ELSE IF Len(nums) = 1 THEN IntToText(nums[1])
    ELSE IntToText(nums[1]) \o <<",">> \o JoinComma(Tail(nums))

\* String.prototype.split(','): the empty string splits into one empty string
RECURSIVE SplitComma(_)
SplitComma(s) ==
    IF \E i \in 1..Len(s) : s[i] = ","
    THEN LET i == CHOOSE j \in 1..Len(s) : s[j] = "," /\ \A h \in 1..(j - 1) : s[h] # ","
         IN  <<SubSeq(s, 1, i - 1)>> \o SplitComma(SubSeq(s, i + 1, Len(s)))
    ELSE <<s>>

-----------------------------------------------------------------------------
(* detectAndFixCircularReplacements.  replacements is the sequence of        *)
(* groups [paramKey, map] in property order, map a function from a          *)
(* parameter to the entered string.                                         *)

\* lines 90-96: the valid numeric entries, as parameter -> number
ReplacementMap(paramReplacements) ==
    LET valid == {k \in DOMAIN paramReplacements :
                     paramReplacements[k] # <<>> /\ ~isNaN(Number(paramReplacements[k]))}
    IN  [k \in {Num(o) : o \in valid} |-> Number(paramReplacements[k.int])]

\* lines 102-116: hasCycle(start) with the sets visited and stack it shares
\* between calls; the result holds the answer and the two sets as left behind
RECURSIVE hasCycle(_, _, _, _)
hasCycle(replacementMap, start, visited, stack) ==
    IF start \in stack THEN [found |-> TRUE, visited |-> visited, stack |-> stack]
    ELSE IF start \in visited THEN [found |-> FALSE, visited |-> visited, stack |-> stack]
    ELSE IF start \in DOMAIN replacementMap /\ replacementMap[start] # start
    THEN LET r == hasCycle(replacementMap, replacementMap[start],
                           visited \cup {start}, stack \cup {start})
         IN  IF r.found THEN r
             ELSE [found |-> FALSE, visited |-> r.visited, stack |-> r.stack \ {start}]
    ELSE [found |-> FALSE, visited |-> visited \cup {start}, stack |-> stack]

\* lines 119-124: the loop over the entries, from entry n on, until a cycle is found
RECURSIVE DetectFrom(_, _, _, _, _)
DetectFrom(replacementMap, keys, n, visited, stack) ==
    IF n > Len(keys) THEN FALSE
    ELSE IF Num(keys[n]) \in DOMAIN replacementMap
            /\ replacementMap[Num(keys[n])] # Num(keys[n])
    THEN LET r == hasCycle(replacementMap, Num(keys[n]), visited, stack)
         IN  r.found \/ DetectFrom(replacementMap, keys, n + 1, r.visited, r.stack)
    ELSE DetectFrom(replacementMap, keys, n + 1, visited, stack)

GroupHasCycle(paramReplacements) ==
    DetectFrom(ReplacementMap(paramReplacements),
               SetToAscSeq(DOMAIN paramReplacements), 1, {}, {})

\* lines 129-138: the entries that change their parameter
TempReplacements(paramReplacements) ==
    LET m == ReplacementMap(paramReplacements)
    IN  [k \in {o \in DOMAIN m : m[o] # o} |-> m[k]]

\* lines 147-153: the while loop that extends a chain.  Neither
\* tempReplacements nor processed changes inside the loop, so its condition
\* depends on current alone: once the loop has run more often than there are
\* entries, current has repeated and the loop pushes without end (endless).
RECURSIVE ExtendChain(_, _, _, _)
ExtendChain(tempReplacements, processed, chain, current) ==
    IF current \in DOMAIN tempReplacements /\ current \notin processed
    THEN IF Len(chain) > Cardinality(DOMAIN tempReplacements)
         THEN [endless |-> TRUE, chain |-> chain]
         ELSE ExtendChain(tempReplacements, processed, Append(chain, current),
                          tempReplacements[current])
    ELSE [endless |-> FALSE, chain |-> chain]

\* lines 144-159: the loop over tempReplacements from entry n on; the result
\* is the list of chains, unless a chain is endless
RECURSIVE BuildChains(_, _, _, _, _)
BuildChains(tempReplacements, keys, n, processed, chains) ==
    IF n > Len(keys) THEN [endless |-> FALSE, chains |-> chains]
    ELSE IF keys[n] \in processed
    THEN BuildChains(tempReplacements, keys, n + 1, processed, chains)
    ELSE LET c == ExtendChain(tempReplacements, processed, <<keys[n]>>,
                              tempReplacements[keys[n]])
         IN  IF c.endless THEN [endless |-> TRUE, chains |-> chains]
             ELSE BuildChains(tempReplacements, keys, n + 1,
                              processed \cup {c.chain[i] : i \in 1..Len(c.chain)},
                              Append(chains, c.chain))

\* lines 162-170: every member of a chain but the last is set to the last
\* member, written as a string under the member's key
RECURSIVE FixChains(_, _, _)
FixChains(paramReplacements, chains, n) ==
    IF n > Len(chains) THEN paramReplacements
    ELSE LET chain == chains[n]
             finalValue == chain[Len(chain)]
             members == {chain[i] : i \in 1..(Len(chain) - 1)}
         IN  FixChains([k \in DOMAIN paramReplacements |->
                            IF Num(k) \in members THEN NumberToText(finalValue)
                            ELSE paramReplacements[k]],
                       chains, n + 1)

\* lines 88-172: the loop over the groups from group n on; hasCircular is the
\* one flag of the whole call.  The result tells whether the call returns
\* and, if it does, what it returns.
RECURSIVE ResolveGroups(_, _, _)
ResolveGroups(fixedReplacements, n, hasCircular) ==
    IF n > Len(fixedReplacements)
    THEN [returns |-> TRUE, hasCircular |-> hasCircular, fixedReplacements |-> fixedReplacements]
    ELSE LET paramReplacements == fixedReplacements[n].map
             circular == hasCircular \/ GroupHasCycle(paramReplacements)
         IN  IF ~circular THEN ResolveGroups(fixedReplacements, n + 1, circular)
             ELSE LET temp == TempReplacements(paramReplacements)
                      order == SelectSeq([i \in 1..Cardinality(DOMAIN paramReplacements) |->
                                             Num(SetToAscSeq(DOMAIN paramReplacements)[i])],
                                         LAMBDA k : k \in DOMAIN temp)
                      built == BuildChains(temp, order, 1, {}, <<>>)
                  IN  IF built.endless
                      THEN [returns |-> FALSE, hasCircular |-> TRUE,
                            fixedReplacements |-> fixedReplacements]
                      ELSE ResolveGroups(
                               [fixedReplacements EXCEPT ![n].map =
                                   FixChains(paramReplacements, built.chains, 1)],
                               n + 1, circular)

detectAndFixCircularReplacements(replacements) == ResolveGroups(replacements, 1, FALSE)


-----------------------------------------------------------------------------
(* replaceParameters: the substitution in one cell text (lines 830-839) *)

\* new RegExp(`\\{${originalParam}\\}`, 'g') and the replacement `{${newParam}}`
TokenText(digits) == <<"{">> \o digits \o <<"}">>

OccursAt(s, i, pat) ==
    /\ i + Len(pat) - 1 <= Len(s)
    /\ SubSeq(s, i, i + Len(pat) - 1) = pat

\* a mutant of ReplaceAll: the braces are not part of the pattern, so the
\* digits are replaced wherever they occur
RECURSIVE ReplaceDigitsFrom(_, _, _, _)
ReplaceDigitsFrom(s, i, pat, rep) ==
    LET digits == SubSeq(pat, 2, Len(pat) - 1)
        newDigits == SubSeq(rep, 2, Len(rep) - 1)
    IN  IF i > Len(s) THEN <<>>
        ELSE IF OccursAt(s, i, digits)
        THEN newDigits \o ReplaceDigitsFrom(s, i + Len(digits), pat, rep)
        ELSE <<s[i]>> \o ReplaceDigitsFrom(s, i + 1, pat, rep)

\* newText.replace(regex, rep) from index i on: every occurrence of the
\* literal pat, left to right and not overlapping
RECURSIVE ReplaceAll(_, _, _, _)
ReplaceAll(s, i, pat, rep) ==
    IF i > Len(s) THEN <<>>
    ELSE IF OccursAt(s, i, pat)
    THEN rep \o ReplaceAll(s, i + Len(pat), pat, rep)
    ELSE <<s[i]>> \o ReplaceAll(s, i + 1, pat, rep)

\* lines 834-838: the body of the loop for the entry originalParam -> newParam
ReplaceEntry(text, originalParam, newParam) ==
    IF newParam.nan \/ Num(originalParam) # newParam
    THEN ReplaceAll(text, 1, TokenText(IntToText(originalParam)),
                    TokenText(NumberToText(newParam)))
    ELSE text

\* lines 833-839: the loop over Object.entries(paramReplacements), the first
\* n entries in ascending key order; paramReplacements maps a parameter to a number
RECURSIVE ReplaceEntries(_, _, _)
ReplaceEntries(text, paramReplacements, n) ==
    IF n = 0 THEN text
    ELSE LET keys == SetToAscSeq(DOMAIN paramReplacements)
         IN  ReplaceEntry(ReplaceEntries(text, paramReplacements, n - 1),
                          keys[n], paramReplacements[keys[n]])

NewText(text, paramReplacements) ==
    ReplaceEntries(text, paramReplacements, Cardinality(DOMAIN paramReplacements))

\* lines 233-236 of handleSave: the entered strings of a group as numbers
NumericReplacements(map) == [k \in DOMAIN map |-> Number(map[k])]

-----------------------------------------------------------------------------
(* Specification SpecResolver: one call of detectAndFixCircularReplacements *)
(* on the replacements of the modal                                         *)

InputAlphabet == {"1", "2", "3", " ", ".", "a"}

ExampleInputs ==
    { <<"a", "b", "c">>, <<"1", ".", "5">>, <<"0", "1">>, <<"2", ".", "0">> }

InputStrings ==
    UNION {[1..k -> InputAlphabet] : k \in 0..MaxInputLen} \cup ExampleInputs

T(n) == IntToText(n)

\* one group over the parameters 1, 2, 3 with every combination of entered
\* strings, and two groups where the cycle is in the first or in the second
ResolverInputs ==
    { << [paramKey |-> JoinComma(<<1, 2, 3>>), map |-> m] >> : m \in [{1, 2, 3} -> InputStrings] }
    \cup { << [paramKey |-> JoinComma(<<1, 2>>), map |-> m] >> : m \in [{1, 2} -> InputStrings] }
    \cup { << [paramKey |-> JoinComma(<<1, 2>>), map |-> m1], [paramKey |-> JoinComma(<<2, 3>>), map |-> m2] >> :
             m1 \in [{1, 2} -> {T(1), T(2)}], m2 \in [{2, 3} -> {T(2), T(3), T(4)}] }

InitResolver ==
    /\ record = [f \in FieldIds |-> CellAbsent]
    /\ paramInfo = <<>>
    /\ extracted = FALSE
    /\ AppIdle
    /\ groupReplacements \in ResolverInputs
    /\ resolution = NotCalled
    /\ ReplaceIdle
    /\ ModalIdle
    /\ SaveIdle

\* line 180
Resolve ==
    /\ ~resolution.called
    /\ LET r == detectAndFixCircularReplacements(groupReplacements)
       IN  resolution' = [called |-> TRUE, returns |-> r.returns,
                          hasCircular |-> r.hasCircular,
                          fixedReplacements |-> r.fixedReplacements]
    /\ UNCHANGED groupReplacements
    /\ UNCHANGED <<extractVars, hostVars, selectionVars, batchVars, replaceVars,
                   modalVars, saveVars>>

NextResolver == Resolve

SpecResolver == InitResolver /\ [][NextResolver]_vars


-----------------------------------------------------------------------------
(* Specification SpecReplace: the loop of replaceParameters over the entries *)
(* of one field (lines 830-839)                                             *)

ReplaceMaps ==
    [{1, 2} -> {Num(1), Num(2), Num(3)}]
    \cup [{1} -> {Num(12), Num(2)}]
    \cup [{2, 12} -> {Num(1), Num(12)}]

InitReplace ==
    /\ record = [f \in FieldIds |-> CellAbsent]
    /\ paramInfo = <<>>
    /\ extracted = FALSE
    /\ AppIdle
    /\ ResolverIdle
    /\ cellText \in Texts
    /\ entries \in ReplaceMaps
    /\ newText = cellText
    /\ applied = 0
    /\ ModalIdle
    /\ SaveIdle

\* one turn of the loop of lines 833-839
ReplaceNextEntry ==
    /\ applied < Cardinality(DOMAIN entries)
    /\ LET keys == SetToAscSeq(DOMAIN entries)
       IN  newText' = ReplaceEntry(newText, keys[applied + 1], entries[keys[applied + 1]])
    /\ applied' = applied + 1
    /\ UNCHANGED <<cellText, entries>>
    /\ UNCHANGED <<extractVars, hostVars, selectionVars, batchVars, resolverVars,
                   modalVars, saveVars>>

NextReplace == ReplaceNextEntry

SpecReplace == InitReplace /\ [][NextReplace]_vars

-----------------------------------------------------------------------------
(* Specification SpecExtract: extractParametersFromRecord applied to one record *)

\* records whose field A sweeps every enumerated cell, with and without
\* tokens in the index field
ExtractRecords ==
    { [f \in FieldIds |->
          CASE f = "fldA" -> a [] f = "fldB" -> b [] OTHER -> idx ] :
      a \in {TextCell(t) : t \in Texts} \cup OddCells,
      b \in {TextCell(<<"{", "2", "}", "{", "1", "}">>), CellAbsent},
      idx \in {TextCell(<<"a">>), TextCell(<<"{", "1", "}", "{", "3", "}">>)} }

InitExtract ==
    /\ record \in ExtractRecords
    /\ paramInfo = <<>>
    /\ extracted = FALSE
    /\ AppIdle
    /\ ResolverIdle
    /\ ReplaceIdle
    /\ ModalIdle
    /\ SaveIdle

Extract ==
    /\ ~extracted
    /\ paramInfo' = extractParametersFromRecord(record, FieldList, FieldMetaList)
    /\ extracted' = TRUE
    /\ UNCHANGED record
    /\ UNCHANGED <<hostVars, selectionVars, batchVars, resolverVars, replaceVars, modalVars, saveVars>>

NextExtract == Extract

SpecExtract == InitExtract /\ [][NextExtract]_vars

-----------------------------------------------------------------------------
(* ParameterEditModal: the groups of the record being edited, the          *)
(* validation effect, the input and save handlers                          *)

\* paramKey.split(',').map(Number) (lines 74 and 353-359)
ParamsOfKey(paramKey) ==
    LET parts == SplitComma(paramKey)
    IN  [i \in 1..Len(parts) |-> Number(parts[i])]

\* lines 353-359: the parameters that have an input in the group of paramKey
InputsOfGroup(paramKey) ==
    {ParamsOfKey(paramKey)[i] : i \in 1..Len(ParamsOfKey(paramKey))}

\* a mutant of hasConsistentParameterCount: every record passes
hasConsistentParameterCountAlways(rec) == Len(rec.differences) >= 0

\* lines 798-803 (and 246-251)
hasConsistentParameterCount(rec) ==
    \/ Len(rec.differences) <= 1
    \/ \A i \in 1..Len(rec.differences) :
          Len(rec.differences[i].parameters) = Len(rec.differences[1].parameters)

\* line 59: diff.parameters.sort(...) sorts the array of the record in place
SortedDifferences(rec) ==
    [rec EXCEPT !.differences =
        [j \in 1..Len(rec.differences) |->
            [ fieldName |-> rec.differences[j].fieldName,
              parameters |-> SortAsc(rec.differences[j].parameters) ]]]

\* a mutant of AddToGroups: every field starts a group of its own
AddToGroupsAlwaysNew(groups, diff) ==
    Append(groups, [paramKey |-> JoinComma(SortAsc(diff.parameters)),
                    fields |-> <<diff.fieldName>>])

\* lines 59-65: one turn of the loop over the differences
AddToGroups(groups, diff) ==
    LET paramKey == JoinComma(SortAsc(diff.parameters))
    IN  IF \E i \in 1..Len(groups) : groups[i].paramKey = paramKey
        THEN [i \in 1..Len(groups) |->
                 IF groups[i].paramKey = paramKey
                 THEN [groups[i] EXCEPT !.fields = Append(groups[i].fields, diff.fieldName)]
                 ELSE groups[i]]
        ELSE Append(groups, [paramKey |-> paramKey, fields |-> <<diff.fieldName>>])

RECURSIVE GroupsInInsertionOrder(_, _)
GroupsInInsertionOrder(differences, n) ==
    IF n = 0 THEN <<>>
    ELSE AddToGroups(GroupsInInsertionOrder(differences, n - 1), differences[n])

\* a property key that is an array index: the key of a one-parameter group
IsArrayIndex(paramKey) == paramKey # <<>> /\ AllDigits(paramKey)

\* the order in which Object.keys and Object.entries list the groups: array
\* indices ascending, then the other keys as inserted
PropertyOrder(groups) ==
    LET indices == {ParseInt(groups[i].paramKey) :
                       i \in {j \in 1..Len(groups) : IsArrayIndex(groups[j].paramKey)}}
        asc == SetToAscSeq(indices)
        groupOf(n) == groups[CHOOSE i \in 1..Len(groups) :
                                 /\ IsArrayIndex(groups[i].paramKey)
                                 /\ ParseInt(groups[i].paramKey) = n]
    IN  [i \in 1..Len(asc) |-> groupOf(asc[i])]
        \o SelectSeq(groups, LAMBDA g : ~IsArrayIndex(g.paramKey))

\* lines 55-68: parameterGroups of a record
ParameterGroupsOf(rec) ==
    PropertyOrder(GroupsInInsertionOrder(rec.differences, Len(rec.differences)))

\* a mutant of InitialReplacements: every parameter of a group starts at the
\* numeral of the group's first parameter
InitialReplacementsOfFirst(groups) ==
    [g \in 1..Len(groups) |->
        LET params == ParamsOfKey(groups[g].paramKey)
        IN  [ paramKey |-> groups[g].paramKey,
              map |-> [k \in {params[i].int : i \in 1..Len(params)} |->
                          NumberToText(params[1])] ]]

\* lines 71-79: every parameter of every group mapped to its own numeral
InitialReplacements(groups) ==
    [g \in 1..Len(groups) |->
        LET params == ParamsOfKey(groups[g].paramKey)
        IN  [ paramKey |-> groups[g].paramKey,
              map |-> [k \in {params[i].int : i \in 1..Len(params)} |->
                          NumberToText(Num(k))] ]]

\* lines 178-192: the validation effect, run after every change of
\* groupReplacements until a run leaves groupReplacements alone.  The result
\* is the modal state the effect settles in, or hung when the call of the
\* resolver does not return.
RECURSIVE ValidationEffect(_)
ValidationEffect(replacements) ==
    LET r == detectAndFixCircularReplacements(replacements)
    IN  IF ~r.returns
        THEN [hung |-> TRUE, groupReplacements |-> replacements]
        ELSE IF r.hasCircular
        THEN ValidationEffect(r.fixedReplacements)
        ELSE [hung |-> FALSE, groupReplacements |-> replacements]

\* the edit button of a reported record (lines 1097-1098) and the mount of
\* the modal (lines 52-80 and 178-192)
OpenEditor(k) ==
    /\ ~hung
    /\ editingRecord = <<>>
    /\ hasConsistentParameterCount(comparisons[k])
    /\ \E rec \in {SortedDifferences(comparisons[k])} :
          \E groups \in {ParameterGroupsOf(rec)} :
             \E v \in {ValidationEffect(InitialReplacements(groups))} :
                /\ comparisons' = [comparisons EXCEPT ![k] = rec]
                /\ editingRecord' = <<rec>>
                /\ parameterGroups' = groups
                /\ groupReplacements' = v.groupReplacements
                /\ hung' = v.hung
    /\ isValid' = TRUE
    /\ errorMessage' = ""
    /\ autoFixed' = FALSE
    /\ UNCHANGED <<edits, saveClicks>>

\* line 358: what the input of a parameter shows
DisplayedValue(map, param) ==
    IF param.int \in DOMAIN map /\ map[param.int] # <<>>
    THEN map[param.int]
    ELSE NumberToText(param)

\* lines 194-202 and the validation effect that the change sets off: the
\* input of parameter originalParam of group g changes to newValue
handleReplacementChange(g, originalParam, newValue) ==
    /\ ~hung
    /\ editingRecord # <<>>
    /\ hasConsistentParameterCount(editingRecord[1])
    /\ edits < MaxEdits
    /\ newValue # DisplayedValue(groupReplacements[g].map, originalParam)
    /\ LET old == groupReplacements[g].map
           newReplacements ==
               [groupReplacements EXCEPT ![g].map =
                   [k \in DOMAIN old \cup {originalParam.int} |->
                       IF k = originalParam.int THEN newValue ELSE old[k]]]
       IN  \E v \in {ValidationEffect(newReplacements)} :
              /\ groupReplacements' = v.groupReplacements
              /\ hung' = v.hung
              /\ errorMessage' = IF v.hung THEN errorMessage ELSE ""
    /\ autoFixed' = FALSE
    /\ isValid' = TRUE
    /\ edits' = edits + 1
    /\ UNCHANGED <<editingRecord, parameterGroups, saveClicks>>

\* a mutant of IsInvalidEntry: only the empty value is turned down
IsInvalidEntryWhenEmpty(newValue) == newValue = <<>>

\* line 213
IsInvalidEntry(newValue) == newValue = <<>> \/ isNaN(Number(newValue))

\* a mutant of FieldReplacements: only the fields of the first group get
\* their replacements
FieldReplacementsOfFirstGroup(groups, replacements) ==
    LET names == {groups[1].fields[i] : i \in 1..Len(groups[1].fields)}
        mapOf(paramKey) ==
            replacements[CHOOSE h \in 1..Len(replacements) :
                             replacements[h].paramKey = paramKey].map
    IN  [name \in names |-> NumericReplacements(mapOf(groups[1].paramKey))]

\* lines 228-239: per field name the numeric replacements of its group
FieldReplacements(groups, replacements) ==
    LET names == UNION {{groups[g].fields[i] : i \in 1..Len(groups[g].fields)} :
                           g \in 1..Len(groups)}
        groupOf(name) ==
            CHOOSE g \in 1..Len(groups) :
                /\ \E i \in 1..Len(groups[g].fields) : groups[g].fields[i] = name
                /\ \A h \in (g + 1)..Len(groups) :
                      \A i \in 1..Len(groups[h].fields) : groups[h].fields[i] # name
        mapOf(paramKey) ==
            replacements[CHOOSE h \in 1..Len(replacements) :
                             replacements[h].paramKey = paramKey].map
    IN  [name \in names |-> NumericReplacements(mapOf(groups[groupOf(name)].paramKey))]

\* lines 45-50: the state of the modal is gone with the modal
Unmount ==
    /\ editingRecord' = <<>>
    /\ parameterGroups' = <<>>
    /\ groupReplacements' = <<>>
    /\ isValid' = TRUE
    /\ errorMessage' = ""
    /\ autoFixed' = FALSE

\* lines 204-243: the save button.  A turned-down save sets the message and
\* returns; an accepted one calls replaceParameters, which runs up to its
\* first await, and closes the modal.
handleSave ==
    /\ ~hung
    /\ editingRecord # <<>>
    /\ hasConsistentParameterCount(editingRecord[1])
    /\ saveClicks < MaxSaveClicks
    /\ saveClicks' = saveClicks + 1
    /\ IF \E g \in 1..Len(groupReplacements) :
             \E k \in DOMAIN groupReplacements[g].map :
                IsInvalidEntry(groupReplacements[g].map[k])
       THEN /\ errorMessage' = "invalidValue"
            /\ UNCHANGED <<editingRecord, parameterGroups, groupReplacements, isValid,
                           autoFixed, saves>>
       ELSE /\ saves' = Append(saves,
                   [ pc |-> "meta",
                     recordId |-> editingRecord[1].recordId,
                     replacements |-> FieldReplacements(parameterGroups, groupReplacements),
                     selected |-> selectedFields,
                     fieldsToUpdate |-> <<>> ])
            /\ Unmount
    /\ UNCHANGED <<hung, edits>>

\* the close and cancel buttons (lines 286, 378 and 1200)
onClose ==
    /\ ~hung
    /\ editingRecord # <<>>
    /\ Unmount
    /\ UNCHANGED <<hung, edits, saveClicks>>

-----------------------------------------------------------------------------
(* replaceParameters (lines 806-867) as the steps between its awaits *)

\* lines 819-845: the cells to write, field id -> new text
FieldsToUpdate(rec, replacements, fieldMetaList) ==
    LET ids == {fieldMetaList[i] : i \in 1..Len(fieldMetaList)}
        \* fieldMetaList.find(meta => meta.name === fieldName)
        found == {id \in ids : NameOf(id) \in DOMAIN replacements}
    IN  [id \in {f \in found : IsTextCell(rec.fields[f])} |->
            NewText(rec.fields[id].items[1].text, replacements[NameOf(id)])]

\* host: table.setRecord(recordId, {fields}) gives the listed fields of the
\* record their new value and keeps the others
SetRecord(tbl, recordId, fieldsToUpdate) ==
    [i \in 1..Len(tbl) |->
        IF tbl[i].recordId = recordId
        THEN [tbl[i] EXCEPT !.fields =
                 [f \in DOMAIN tbl[i].fields |->
                     IF f \in DOMAIN fieldsToUpdate
                     THEN TextCell(fieldsToUpdate[f])
                     ELSE tbl[i].fields[f]]]
        ELSE tbl[i]]

\* lines 808-811: the table, the view, the field metas and the field list arrive
ReplaceMeta(j) ==
    /\ saves[j].pc = "meta"
    /\ saves' = [saves EXCEPT ![j].pc = "record"]
    /\ UNCHANGED <<hostVars, batchVars, toastMessage>>

\* lines 814-857: the record arrives and the new texts are computed; with
\* nothing to write the call is over, else setRecord is called
ReplaceRecord(j) ==
    /\ saves[j].pc = "record"
    /\ \E i \in 1..Len(table) : table[i].recordId = saves[j].recordId
    /\ LET rec == table[CHOOSE i \in 1..Len(table) : table[i].recordId = saves[j].recordId]
           fieldsToUpdate == FieldsToUpdate(rec, saves[j].replacements, FieldMetaList)
       IN  saves' = IF DOMAIN fieldsToUpdate = {} THEN RemoveAt(saves, j)
                    ELSE [saves EXCEPT ![j].pc = "write",
                                       ![j].fieldsToUpdate = fieldsToUpdate]
    /\ UNCHANGED <<hostVars, batchVars, toastMessage>>

\* lines 857-861: setRecord has written; the toast is set and
\* compareAllRecords is called, whatever isComparing says, and runs up to its
\* first await
ReplaceWrite(j) ==
    /\ saves[j].pc = "write"
    /\ table' = SetRecord(table, saves[j].recordId, saves[j].fieldsToUpdate)
    /\ toastMessage' = "success"
    /\ isComparing' = TRUE
    /\ floatingMessage' = "start"
    /\ runs' = Append(runs, [ pc |-> "meta", selected |-> saves[j].selected,
                              allRecords |-> <<>>, pageToken |-> 0 ])
    /\ saves' = RemoveAt(saves, j)
    /\ UNCHANGED <<comparisons, lastRun>>

\* a mutant of ReplaceFail: the failure ends the call and nothing is reported
ReplaceFailSilent(j) ==
    /\ saves' = RemoveAt(saves, j)
    /\ UNCHANGED <<hostVars, batchVars, toastMessage>>

\* lines 863-866: a host call of replaceParameters fails
ReplaceFail(j) ==
    /\ toastMessage' = "error"
    /\ saves' = RemoveAt(saves, j)
    /\ UNCHANGED <<hostVars, batchVars>>

-----------------------------------------------------------------------------
(* Specification SpecEdit: the edit modal on the results of a finished run *)

\* the strings typed or pasted into an input of the modal
EditInputs ==
    { <<"1">>, <<"2">>, <<"3">>, <<>>, <<" ">>, <<"a", "b", "c">>, <<"1", ".", "5">> }

\* a group {1,2} of one field against the baseline {1,3}; one group of two
\* fields; differing parameter counts; a record of two one-parameter groups
\* beside one of differing counts
EditTables ==
    { << Rec("rec1", TextCell(<<"{", "1", "}", "{", "3", "}">>),
             TextCell(<<"x", "{", "1", "}", "{", "2", "}">>), CellAbsent) >>,
      << Rec("rec1", TextCell(<<"{", "3", "}", "{", "3", "}">>),
             TextCell(<<"{", "1", "}", "{", "2", "}">>),
             TextCell(<<"{", "2", "}", "{", "1", "}">>)) >>,
      << Rec("rec1", TextCell(<<"a">>), TextCell(<<"{", "1", "}">>),
             TextCell(<<"{", "1", "}", "{", "2", "}">>)) >>,
      << Rec("rec1", TextCell(<<"a">>), TextCell(<<"{", "1", "}">>),
             TextCell(<<"{", "2", "}">>)),
         Rec("rec2", TextCell(<<"b">>), TextCell(<<"{", "1", "}">>),
             TextCell(<<"{", "1", "}", "{", "2", "}">>)) >> }

InitEdit ==
    /\ record = [f \in FieldIds |-> CellAbsent]
    /\ paramInfo = <<>>
    /\ extracted = FALSE
    /\ table \in EditTables
    /\ fieldOptions = InitialOptions
    /\ selectedFields = [i \in 1..Len(InitialOptions) |-> InitialOptions[i].id]
    /\ comparisons = CompareRecords(table, FieldList, FieldMetaList, selectedFields, Len(table))
    /\ isComparing = FALSE
    /\ floatingMessage = "done"
    /\ runs = <<>>
    /\ lastRun = [selected |-> selectedFields, allRecords |-> table]
    /\ resolution = NotCalled
    /\ groupReplacements = <<>>
    /\ ReplaceIdle
    /\ ModalIdle
    /\ SaveIdle

NextEdit ==
    \/ \E k \in 1..Len(comparisons) :
          OpenEditor(k)
          /\ UNCHANGED <<isComparing, floatingMessage, runs, lastRun>>
          /\ UNCHANGED <<extractVars, hostVars, selectionVars, resolution, replaceVars, saveVars>>
    \/ \E g \in 1..Len(groupReplacements) :
          \E originalParam \in InputsOfGroup(groupReplacements[g].paramKey) :
             \E newValue \in EditInputs :
                handleReplacementChange(g, originalParam, newValue)
                /\ UNCHANGED <<extractVars, hostVars, selectionVars, batchVars, resolution,
                               replaceVars, saveVars>>
    \/ handleSave
          /\ UNCHANGED <<extractVars, hostVars, selectionVars, batchVars, resolution,
                         replaceVars, toastMessage>>
    \/ onClose
          /\ UNCHANGED <<extractVars, hostVars, selectionVars, batchVars, resolution,
                         replaceVars, saveVars>>
    \/ \E j \in 1..Len(saves) :
          ~hung /\ ReplaceMeta(j)
          /\ UNCHANGED <<extractVars, selectionVars, resolverVars, replaceVars, modalVars>>
    \/ \E j \in 1..Len(saves) :
          ~hung /\ ReplaceRecord(j)
          /\ UNCHANGED <<extractVars, selectionVars, resolverVars, replaceVars, modalVars>>
    \/ \E j \in 1..Len(saves) :
          ~hung /\ ReplaceWrite(j)
          /\ UNCHANGED <<extractVars, selectionVars, resolverVars, replaceVars, modalVars>>
    \/ \E j \in 1..Len(saves) :
          ~hung /\ ReplaceFail(j)
          /\ UNCHANGED <<extractVars, selectionVars, resolverVars, replaceVars, modalVars>>
    \/ \E i \in 1..Len(runs) :
          ~hung /\ FetchMeta(i)
          /\ UNCHANGED <<extractVars, hostVars, selectionVars, resolverVars, replaceVars,
                         modalVars, saveVars>>
    \/ \E i \in 1..Len(runs) :
          ~hung /\ FetchPage(i)
          /\ UNCHANGED <<extractVars, hostVars, selectionVars, resolverVars, replaceVars,
                         modalVars, saveVars>>
    \/ \E i \in 1..Len(runs) :
          ~hung /\ CompareAll(i)
          /\ UNCHANGED <<extractVars, hostVars, selectionVars, resolverVars, replaceVars,
                         modalVars, saveVars>>
    \/ \E i \in 1..Len(runs) :
          ~hung /\ CompareFail(i)
          /\ UNCHANGED <<extractVars, hostVars, selectionVars, resolverVars, replaceVars,
                         modalVars, saveVars>>

SpecEdit == InitEdit /\ [][NextEdit]_vars

-----------------------------------------------------------------------------
(* Specification SpecSession: the compare button, the edit modal and the   *)
(* host's table side by side, from the results of a finished run           *)

\* host: the records of the active table are deleted, or the active table
\* becomes one without records; getRecords returns none from then on
HostDeletesRecords ==
    /\ table # <<>>
    /\ table' = <<>>

SessionInputs == { <<"3">>, <<>> }

\* one record; in the second table the cell of field A is a text segment
\* followed by a link segment
SessionTables ==
    { << Rec("rec1", TextCell(<<"{", "1", "}", "{", "3", "}">>),
             TextCell(<<"x", "{", "1", "}", "{", "2", "}">>), CellAbsent) >>,
      << Rec("rec1", TextCell(<<"{", "1", "}", "{", "3", "}">>),
             CellList(<<SegText(<<"{", "1", "}", "{", "2", "}">>), SegUrl(<<"a">>)>>),
             CellAbsent) >> }

InitSession ==
    /\ record = [f \in FieldIds |-> CellAbsent]
    /\ paramInfo = <<>>
    /\ extracted = FALSE
    /\ table \in SessionTables
    /\ fieldOptions = InitialOptions
    /\ selectedFields = [i \in 1..Len(InitialOptions) |-> InitialOptions[i].id]
    /\ comparisons = CompareRecords(table, FieldList, FieldMetaList, selectedFields, Len(table))
    /\ isComparing = FALSE
    /\ floatingMessage = "done"
    /\ runs = <<>>
    /\ lastRun = [selected |-> selectedFields, allRecords |-> table]
    /\ resolution = NotCalled
    /\ groupReplacements = <<>>
    /\ ReplaceIdle
    /\ ModalIdle
    /\ SaveIdle

NextSession ==
    \/ /\ ~hung
       /\ editingRecord = <<>>
       /\ StartCompare
       /\ UNCHANGED <<extractVars, hostVars, selectionVars, resolverVars, replaceVars,
                      modalVars, saveVars>>
    \/ HostDeletesRecords
          /\ UNCHANGED <<extractVars, selectionVars, batchVars, resolverVars, replaceVars,
                         modalVars, saveVars>>
    \/ \E k \in 1..Len(comparisons) :
          OpenEditor(k)
          /\ UNCHANGED <<isComparing, floatingMessage, runs, lastRun>>
          /\ UNCHANGED <<extractVars, hostVars, selectionVars, resolution, replaceVars, saveVars>>
    \/ \E g \in 1..Len(groupReplacements) :
          \E originalParam \in InputsOfGroup(groupReplacements[g].paramKey) :
             \E newValue \in SessionInputs :
                handleReplacementChange(g, originalParam, newValue)
                /\ UNCHANGED <<extractVars, hostVars, selectionVars, batchVars, resolution,
                               replaceVars, saveVars>>
    \/ handleSave
          /\ UNCHANGED <<extractVars, hostVars, selectionVars, batchVars, resolution,
                         replaceVars, toastMessage>>
    \/ onClose
          /\ UNCHANGED <<extractVars, hostVars, selectionVars, batchVars, resolution,
                         replaceVars, saveVars>>
    \/ \E j \in 1..Len(saves) :
          ~hung /\ ReplaceMeta(j)
          /\ UNCHANGED <<extractVars, selectionVars, resolverVars, replaceVars, modalVars>>
    \/ \E j \in 1..Len(saves) :
          ~hung /\ ReplaceRecord(j)
          /\ UNCHANGED <<extractVars, selectionVars, resolverVars, replaceVars, modalVars>>
    \/ \E j \in 1..Len(saves) :
          ~hung /\ ReplaceWrite(j)
          /\ UNCHANGED <<extractVars, selectionVars, resolverVars, replaceVars, modalVars>>
    \/ \E j \in 1..Len(saves) :
          ~hung /\ ReplaceFail(j)
          /\ UNCHANGED <<extractVars, selectionVars, resolverVars, replaceVars, modalVars>>
    \/ \E i \in 1..Len(runs) :
          ~hung /\ FetchMeta(i)
          /\ UNCHANGED <<extractVars, hostVars, selectionVars, resolverVars, replaceVars,
                         modalVars, saveVars>>
    \/ \E i \in 1..Len(runs) :
          ~hung /\ FetchPage(i)
          /\ UNCHANGED <<extractVars, hostVars, selectionVars, resolverVars, replaceVars,
                         modalVars, saveVars>>
    \/ \E i \in 1..Len(runs) :
          ~hung /\ CompareNone(i)
          /\ UNCHANGED <<extractVars, hostVars, selectionVars, resolverVars, replaceVars,
                         modalVars, saveVars>>
    \/ \E i \in 1..Len(runs) :
          ~hung /\ CompareAll(i)
          /\ UNCHANGED <<extractVars, hostVars, selectionVars, resolverVars, replaceVars,
                         modalVars, saveVars>>
    \/ \E i \in 1..Len(runs) :
          ~hung /\ CompareFail(i)
          /\ UNCHANGED <<extractVars, hostVars, selectionVars, resolverVars, replaceVars,
                         modalVars, saveVars>>

SpecSession == InitSession /\ [][NextSession]_vars

-----------------------------------------------------------------------------
(* Token occurrences of a text, stated without scanning *)

\* (i, j): s[i] = "{", s[j] = "}" and only digits, at least one, in between
IsTokenAt(s, i, j) ==
    /\ i + 1 < j
    /\ s[i] = "{"
    /\ s[j] = "}"
    /\ \A k \in (i + 1)..(j - 1) : IsDigit(s[k])

TokenSpans(s) ==
    {p \in (1..Len(s)) \X (1..Len(s)) : IsTokenAt(s, p[1], p[2])}

\* value of the decimal numeral s[i+1..j-1]
RECURSIVE Pow10(_)
Pow10(n) == IF n = 0 THEN 1 ELSE 10 * Pow10(n - 1)

RECURSIVE NumeralSum(_, _, _)
NumeralSum(s, i, j) ==
    IF i > j THEN 0 ELSE DigitVal(s[i]) * Pow10(j - i) + NumeralSum(s, i + 1, j)

SpanValue(s, p) == NumeralSum(s, p[1] + 1, p[2] - 1)

\* number of occurrences of v in a sequence
Count(seq, v) == Cardinality({i \in 1..Len(seq) : seq[i] = v})

IsAscending(seq) == \A i \in 1..(Len(seq) - 1) : seq[i] <= seq[i + 1]

\* the ParameterInfo entry of a field in a result, as a set (empty or one entry)
EntriesOf(info, fieldId) == {i \in 1..Len(info) : info[i].fieldId = fieldId}

-----------------------------------------------------------------------------
(* Claims about the Token Extractor *)

\* C8: for every text cell the extractor returns exactly the integers found
\* inside {digits} patterns, one entry per occurrence, sorted ascending
\* whatever the order of the tokens in the text.
C8_ExtractSortedExact ==
    extracted =>
        \A f \in FieldIds :
            IsTextCell(record[f]) =>
                LET text == record[f].items[1].text
                    spans == TokenSpans(text)
                IN  \A k \in EntriesOf(paramInfo, f) :
                        /\ IsAscending(paramInfo[k].parameters)
                        /\ Len(paramInfo[k].parameters) = Cardinality(spans)
                        /\ \A p \in spans :
                              Count(paramInfo[k].parameters, SpanValue(text, p))
                                = Cardinality({q \in spans : SpanValue(text, q) = SpanValue(text, p)})

\* C8 witness: "{3}{1}{2}" has been extracted as [1,2,3]
C8_Witness ==
    /\ extracted
    /\ record["fldA"] = TextCell(<<"{", "3", "}", "{", "1", "}", "{", "2", "}">>)
    /\ \E k \in EntriesOf(paramInfo, "fldA") : paramInfo[k].parameters = <<1, 2, 3>>

\* C9: a field has a ParameterInfo entry if and only if its cell is a
\* non-empty list whose first element is a text cell holding at least one
\* {digits} token; every other cell yields no entry, and never two.
C9_EntryIffTokenText ==
    extracted =>
        \A f \in FieldIds :
            /\ Cardinality(EntriesOf(paramInfo, f)) <= 1
            /\ (EntriesOf(paramInfo, f) # {})
                 <=> ( /\ record[f].kind = "list"
                       /\ Len(record[f].items) > 0
                       /\ record[f].items[1].type = "text"
                       /\ record[f].items[1].hasText
                       /\ TokenSpans(record[f].items[1].text) # {} )

\* C9 witness: a text cell with malformed brace content only has no entry,
\* next to a field that has one
C9_Witness ==
    /\ extracted
    /\ record["fldA"] = TextCell(<<"{", "a", "}">>)
    /\ EntriesOf(paramInfo, "fldA") = {}
    /\ EntriesOf(paramInfo, "fldB") # {}

-----------------------------------------------------------------------------
(* Claims about the Record Comparator and the Batch Runner *)

\* the fields of a record whose cell is a text cell with at least one token
TokenFields(rec) ==
    {f \in FieldIds :
        /\ rec.fields[f].kind = "list"
        /\ Len(rec.fields[f].items) > 0
        /\ rec.fields[f].items[1].type = "text"
        /\ rec.fields[f].items[1].hasText
        /\ TokenSpans(rec.fields[f].items[1].text) # {}}

ViewPos(f) == CHOOSE i \in 1..Len(FieldMetaList) : FieldMetaList[i] = f

\* the token-bearing field that comes first in the view
BaselineField(rec) ==
    CHOOSE f \in TokenFields(rec) : \A g \in TokenFields(rec) : ViewPos(f) <= ViewPos(g)

\* number of token occurrences of value v in a text
Occurrences(text, v) == Cardinality({p \in TokenSpans(text) : SpanValue(text, p) = v})

TokenValues(text) == {SpanValue(text, p) : p \in TokenSpans(text)}

\* two texts hold the same multiset of token values
SameTokens(t1, t2) ==
    \A v \in TokenValues(t1) \cup TokenValues(t2) : Occurrences(t1, v) = Occurrences(t2, v)

CellText(rec, f) == rec.fields[f].items[1].text

\* some selected token-bearing field other than the baseline differs from it
HasDiscrepancy(rec, selected) ==
    /\ TokenFields(rec) # {}
    /\ \E f \in TokenFields(rec) \ {BaselineField(rec)} :
          /\ Includes(selected, f)
          /\ ~SameTokens(CellText(rec, f), CellText(rec, BaselineField(rec)))

ReportedIds == {comparisons[k].recordId : k \in 1..Len(comparisons)}

FetchedRecords == {lastRun.allRecords[k] : k \in 1..Len(lastRun.allRecords)}

\* C1: a record with at least two token-bearing fields is reported if and
\* only if some selected non-baseline token-bearing field differs from the
\* baseline as a multiset of tokens; the published result holds exactly the
\* records with such a discrepancy.
C1_ReportedIffDiscrepancy ==
    /\ \A rec \in FetchedRecords :
          Cardinality(TokenFields(rec)) >= 2 =>
              (rec.recordId \in ReportedIds <=> HasDiscrepancy(rec, lastRun.selected))
    /\ ReportedIds = {rec.recordId : rec \in {r \in FetchedRecords : HasDiscrepancy(r, lastRun.selected)}}

\* C1 witness: the end-to-end example; of three records only record 3 is
\* reported, record 2 holding the same tokens in another order
C1_Witness ==
    /\ Len(lastRun.allRecords) = 3
    /\ lastRun.allRecords[2] = ExampleRec2
    /\ lastRun.allRecords[3] = ExampleRec3
    /\ Len(comparisons) = 1
    /\ comparisons[1].recordId = "rec3"

\* C10: a record with fewer than two token-bearing fields, counted over all
\* its fields, is in no published result, whatever fields are selected.
C10_SingleTokenFieldNeverReported ==
    \A rec \in FetchedRecords :
        Cardinality(TokenFields(rec)) < 2 => rec.recordId \notin ReportedIds

\* C10 witness: a published result that reports another record while a
\* fetched record has exactly one token-bearing field, which is selected
C10_Witness ==
    /\ comparisons # <<>>
    /\ \E rec \in FetchedRecords :
          /\ Cardinality(TokenFields(rec)) = 1
          /\ \A f \in TokenFields(rec) : Includes(lastRun.selected, f)
          /\ rec.recordId \notin ReportedIds

\* the selections the field dropdown can hold, as far as membership goes
Selections == {<<>>, <<"fldA">>, <<"fldB">>, <<"fldA", "fldB">>}

\* C11: the baseline of a record, the first entry of its extracted
\* parameters, is the token-bearing field that comes first in the view,
\* whatever the token values; the entries follow in view order, and under
\* every selection the differences are the selected other token-bearing
\* fields whose tokens differ from that baseline's, each with the baseline's
\* tokens as the expected ones.
C11_BaselineIsFirstTokenFieldInView ==
    (extracted /\ paramInfo # <<>>) =>
        LET rec == [recordId |-> "rec", fields |-> record]
            base == BaselineField(rec)
        IN  /\ paramInfo[1].fieldId = base
            /\ \A i \in 1..(Len(paramInfo) - 1) :
                  ViewPos(paramInfo[i].fieldId) < ViewPos(paramInfo[i + 1].fieldId)
            /\ \A selected \in Selections :
                  LET d == Differences(paramInfo, selected)
                  IN  /\ {d[k].fieldName : k \in 1..Len(d)}
                           = {NameOf(f) : f \in {g \in TokenFields(rec) \ {base} :
                                 /\ Includes(selected, g)
                                 /\ ~SameTokens(CellText(rec, g), CellText(rec, base))}}
                      /\ \A k \in 1..Len(d) : d[k].expected = paramInfo[1].parameters

\* C11 witness: the index field {1}{3} is the baseline although field A
\* holds the smaller token {1} alone and comes first in no list but the view
C11_Witness ==
    /\ extracted
    /\ record["fldIdx"] = TextCell(<<"{", "1", "}", "{", "3", "}">>)
    /\ record["fldA"] = TextCell(<<"{", "1", "}">>)
    /\ record["fldB"] = TextCell(<<"{", "2", "}", "{", "1", "}">>)
    /\ Len(paramInfo) = 3
    /\ paramInfo[1].fieldId = "fldIdx"

\* the fetched record of a reported comparison
FetchedRecord(recordId) == CHOOSE rec \in FetchedRecords : rec.recordId = recordId

\* the selected token-bearing fields of a record
SelectedTokenFields(rec, selected) == {f \in TokenFields(rec) : Includes(selected, f)}

\* a list holds exactly the token values of a text, each as often as the text
HoldsTokensOf(list, text) ==
    /\ Len(list) = Cardinality(TokenSpans(text))
    /\ \A v \in TokenValues(text) : Count(list, v) = Occurrences(text, v)

\* C12: every reported RecordComparison lists in differences every selected
\* token-bearing field of its record, mismatching or not, once and in
\* ascending view order, each with the full ascending list of its tokens.
C12_DifferencesCarryFullTokenLists ==
    \A k \in 1..Len(comparisons) :
        LET c == comparisons[k]
            rec == FetchedRecord(c.recordId)
            fields == SelectedTokenFields(rec, lastRun.selected)
        IN  /\ Len(c.differences) = Cardinality(fields)
            /\ \A f \in fields :
                  \E i \in 1..Len(c.differences) :
                     /\ c.differences[i].fieldName = NameOf(f)
                     /\ IsAscending(c.differences[i].parameters)
                     /\ HoldsTokensOf(c.differences[i].parameters, CellText(rec, f))
                     /\ \A g \in fields :
                           ViewPos(g) < ViewPos(f) =>
                              \E j \in 1..(i - 1) : c.differences[j].fieldName = NameOf(g)

\* C12 witness: the record with A = {1}{2} and B = {1}{3} is reported with
\* both lists in full, the matching baseline A before the mismatching B
C12_Witness ==
    \E k \in 1..Len(comparisons) :
        /\ comparisons[k].recordId = "rec3"
        /\ comparisons[k].differences =
              << [fieldName |-> "A", parameters |-> <<1, 2>>],
                 [fieldName |-> "B", parameters |-> <<1, 3>>] >>

\* the places of a record id in the fetched list
PlacesOf(recordId) ==
    {i \in 1..Len(lastRun.allRecords) : lastRun.allRecords[i].recordId = recordId}

\* C13: the published results are a subsequence of the fetched records,
\* the pages concatenated in fetch order: every result belongs to one fetched
\* record, a later result to a later record, and no record has two results.
C13_ResultsInFetchOrder ==
    /\ \A k \in 1..Len(comparisons) : Cardinality(PlacesOf(comparisons[k].recordId)) = 1
    /\ \A k, l \in 1..Len(comparisons) :
          k < l => \A i \in PlacesOf(comparisons[k].recordId) :
                      \A j \in PlacesOf(comparisons[l].recordId) : i < j

\* C13 witness: of three fetched records the first and the third are
\* reported, in that order
C13_Witness ==
    /\ Len(lastRun.allRecords) = 3
    /\ Len(comparisons) = 2
    /\ comparisons[1].recordId = lastRun.allRecords[1].recordId
    /\ comparisons[2].recordId = lastRun.allRecords[3].recordId

\* a step in which a run that fetched no record comes to its end
ZeroRecordRunEnds ==
    \E i \in 1..Len(runs) :
        /\ runs[i].pc = "compare"
        /\ runs[i].allRecords = <<>>
        /\ runs' = RemoveAt(runs, i)

\* C14: a run that fetched zero records ends without an error and leaves an
\* empty published result, also when an earlier run had published
\* discrepancies.
C14_ZeroRecordRunPublishesEmpty ==
    [][ ZeroRecordRunEnds => (comparisons' = <<>> /\ floatingMessage' # "error") ]_vars

\* C15: at most one comparison run is in flight at any time, whether it was
\* started by the compare button or by replaceParameters after a write.
C15_OneRunInFlight == Len(runs) <= 1

\* a step in which a run ends before it has fetched its last page: a host
\* call of the run has failed
FetchingRunEnds ==
    \E i \in 1..Len(runs) :
        /\ runs[i].pc \in {"meta", "pages"}
        /\ runs' = RemoveAt(runs, i)

\* C16: when a host call of a batch run fails, the run ends without
\* publishing: the published result is what it was before, the records the
\* run had fetched are dropped with it, and the failure message is set.
C16_FailedRunPublishesNothing ==
    [][ FetchingRunEnds =>
            /\ comparisons' = comparisons
            /\ lastRun' = lastRun
            /\ floatingMessage' = "error" ]_vars

\* C16 witness: a run over three records has published; a later run has
\* failed, and the published result is still that of the three records
C16_Witness ==
    /\ floatingMessage = "error"
    /\ runs = <<>>
    /\ Len(lastRun.allRecords) = 3
    /\ comparisons # <<>>
    /\ comparisons = CompareRecords(lastRun.allRecords, FieldList, FieldMetaList,
                                    lastRun.selected, 3)

\* a step in which a call of replaceParameters ends otherwise than by its
\* write (which starts a run) or by finding nothing to write: a host call of
\* it has failed
FailedApplyEnds ==
    \E j \in 1..Len(saves) :
        /\ saves' = RemoveAt(saves, j)
        /\ Len(runs') = Len(runs)
        /\ \/ saves[j].pc \in {"meta", "write"}
           \/ \A i \in 1..Len(table) : table[i].recordId # saves[j].recordId
           \/ \E i \in 1..Len(table) :
                 /\ table[i].recordId = saves[j].recordId
                 /\ DOMAIN FieldsToUpdate(table[i], saves[j].replacements,
                                          FieldMetaList) # {}

\* C17: a failed host call ends its operation with a reported message: a
\* failed batch run sets the failure message and gives the compare button
\* back, a failed apply of an edit sets the failure toast; the modal and the
\* other operations in flight are as they were.
C17_FailuresAreReported ==
    [][ /\ FetchingRunEnds =>
              /\ floatingMessage' = "error"
              /\ isComparing' = FALSE
              /\ UNCHANGED <<saves, toastMessage, modalVars>>
        /\ FailedApplyEnds =>
              /\ toastMessage' = "error"
              /\ UNCHANGED <<runs, isComparing, floatingMessage, comparisons, table,
                             modalVars>> ]_vars

\* C17 witness: the apply of a saved edit has failed and the toast says so
C17_Witness ==
    /\ saveClicks = 1
    /\ saves = <<>>
    /\ runs = <<>>
    /\ toastMessage = "error"

\* the listed fields of a reported record hold equally many tokens
EqualTokenCounts(rec) ==
    \A i, j \in 1..Len(rec.differences) :
        Len(rec.differences[i].parameters) = Len(rec.differences[j].parameters)

C28_IsComparingIffRunInFlight ==
    isComparing <=> (runs # <<>>)

-----------------------------------------------------------------------------
(* Claims about the Substitution Resolver *)

TwoCycle == << [paramKey |-> JoinComma(<<1, 2>>), map |-> (1 :> T(2) @@ 2 :> T(1))] >>

ThreeCycle ==
    << [paramKey |-> JoinComma(<<1, 2, 3>>), map |-> (1 :> T(2) @@ 2 :> T(3) @@ 3 :> T(1))] >>

\* the text of a cell after the first group's replacements, as entered, are
\* converted by handleSave and applied by replaceParameters
Applied(text, replacements) == NewText(text, NumericReplacements(replacements[1].map))

Text123 == <<"{", "1", "}", "{", "2", "}", "{", "3", "}">>

\* the entries of a group that change their parameter
ChangingKeys(map) == {k \in DOMAIN map : Number(map[k]) # Num(k)}

\* C2: for the 2-cycle {1:2, 2:1} the resolver returns a fixed mapping, and
\* applying that mapping twice to a text gives what applying it once gives.
C2_TwoCycleFixedIdempotent ==
    (resolution.called /\ groupReplacements = TwoCycle) =>
        /\ resolution.returns
        /\ \A t \in ExampleTexts \cup {Text123} :
              Applied(Applied(t, resolution.fixedReplacements), resolution.fixedReplacements)
                = Applied(t, resolution.fixedReplacements)

\* C3: for the 3-cycle {1:2, 2:3, 3:1} the resolver returns a mapping with a
\* single terminal target: "{1}{2}{3}" is left with one token value, and no
\* changed entry points at a parameter that is itself changed.
C3_ThreeCycleCollapsed ==
    (resolution.called /\ groupReplacements = ThreeCycle) =>
        /\ resolution.returns
        /\ Cardinality(TokenValues(Applied(Text123, resolution.fixedReplacements))) = 1
        /\ LET map == resolution.fixedReplacements[1].map
           IN  \A k \in ChangingKeys(map) :
                  Number(map[k]) \notin {Num(j) : j \in ChangingKeys(map)}

\* the resolver returns only when it has found no cycle: every cycle it
\* finds sends the chain loop of the fix step round without end
ResolverReturnsOnlyWithoutCycle ==
    resolution.called => (resolution.returns <=> ~resolution.hasCircular)

\* C22: the resolver returns for every mapping it is called on, the
\* mappings with a cycle included.
C22_ResolverTerminates ==
    resolution.called => resolution.returns

\* the graph of a group: an edge x -> y for every entry that is not empty,
\* is a number and sends x to another value y
GraphEdge(map, x, y) ==
    /\ map[x] # <<>>
    /\ ~isNaN(Number(map[x]))
    /\ Number(map[x]) = Num(y)
    /\ x # y

\* the graph has a chain a -> b -> ... -> a of two or more values: some
\* values, two or more, each have their edge to one of them
GraphHasCycle(map) ==
    \E S \in SUBSET DOMAIN map :
        /\ Cardinality(S) >= 2
        /\ \A x \in S : \E y \in S : GraphEdge(map, x, y)

SomeGroupHasCycle ==
    \E g \in 1..Len(groupReplacements) : GraphHasCycle(groupReplacements[g].map)

\* C23: the resolver reports hasCircular = true exactly when the graph of
\* some group has a cycle.
C23_DetectionExact ==
    resolution.called =>
        ((resolution.returns /\ resolution.hasCircular) <=> SomeGroupHasCycle)

\* the flag set by the detection step (lines 99-124) is exact, whether or
\* not the call comes back with it
DetectionFlagExact ==
    resolution.called => (resolution.hasCircular <=> SomeGroupHasCycle)

-----------------------------------------------------------------------------
(* Claims about the apply step *)

\* the token occurrences of a text whose digits are exactly the given numeral
SpansOf(text, digits) ==
    {p \in TokenSpans(text) : SubSeq(text, p[1] + 1, p[2] - 1) = digits}

\* the text with every span of the set replaced by rep and all else kept
RECURSIVE SubstituteSpans(_, _, _, _)
SubstituteSpans(text, i, spans, rep) ==
    IF i > Len(text) THEN <<>>
    ELSE IF \E p \in spans : p[1] = i
    THEN LET p == CHOOSE q \in spans : q[1] = i
         IN  rep \o SubstituteSpans(text, p[2] + 1, spans, rep)
    ELSE <<text[i]>> \o SubstituteSpans(text, i + 1, spans, rep)

\* what an entry is to do to a text: nothing when it maps the parameter to
\* itself, else exactly the tokens {originalParam} become {newParam}
EntryEffect(text, originalParam, newParam) ==
    IF newParam = Num(originalParam) THEN text
    ELSE SubstituteSpans(text, 1, SpansOf(text, IntToText(originalParam)),
                         <<"{">> \o NumberToText(newParam) \o <<"}">>)

RECURSIVE EntryEffects(_, _, _)
EntryEffects(text, map, n) ==
    IF n = 0 THEN text
    ELSE LET keys == SetToAscSeq(DOMAIN map)
         IN  EntryEffect(EntryEffects(text, map, n - 1), keys[n], map[keys[n]])

\* C7: entry by entry, replaceParameters turns every occurrence of the token
\* {original} into {newValue} when the two differ, by exact match of the
\* token: tokens with other digits (such as {12} or {21} for 1) are kept,
\* entries with original = newValue change nothing, and so does all text
\* outside the matched tokens.
C7_ExactTokenReplacement ==
    /\ newText = EntryEffects(cellText, entries, applied)
    /\ (\A k \in DOMAIN entries : SpansOf(cellText, IntToText(k)) = {} \/ entries[k] = Num(k))
          => newText = cellText

\* C7 witness: in "{12}{2}{1}" the entry 1 -> 3 rewrote {1} alone; {12}
\* and the token of the unchanged entry 2 -> 2 are as they were
C7_Witness ==
    /\ cellText = <<"{", "1", "2", "}", "{", "2", "}", "{", "1", "}">>
    /\ entries = (1 :> Num(3) @@ 2 :> Num(2))
    /\ applied = 2
    /\ newText = <<"{", "1", "2", "}", "{", "2", "}", "{", "3", "}">>

\* a mapping of numbers in which some parameters, two or more, are each
\* sent to another one of them
NumericCycle(m) ==
    \E S \in SUBSET DOMAIN m :
        /\ Cardinality(S) >= 2
        /\ \A x \in S : \E y \in S : x # y /\ m[x] = Num(y)

\* the text with every token {t} whose numeral t is a key of m replaced by
\* {m(t)}, all at once: each token of the original text is looked up once
RECURSIVE SimultaneousFrom(_, _, _)
SimultaneousFrom(text, i, m) ==
    IF i > Len(text) THEN <<>>
    ELSE IF \E p \in TokenSpans(text) : p[1] = i
    THEN LET p == CHOOSE q \in TokenSpans(text) : q[1] = i
             digits == SubSeq(text, p[1] + 1, p[2] - 1)
             keys == {k \in DOMAIN m : IntToText(k) = digits}
         IN  (IF keys = {} THEN SubSeq(text, p[1], p[2])
              ELSE TokenText(NumberToText(m[CHOOSE k \in keys : TRUE])))
             \o SimultaneousFrom(text, p[2] + 1, m)
    ELSE <<text[i]>> \o SimultaneousFrom(text, i + 1, m)

\* C24: for a mapping without a cycle, the text left by the loop over the
\* entries is the text of the simultaneous substitution: every token {t} of
\* the original text has become {m(t)}, whatever the order of the entries.
C24_SimultaneousSubstitution ==
    (applied = Cardinality(DOMAIN entries) /\ ~NumericCycle(entries))
        => newText = SimultaneousFrom(cellText, 1, entries)

\* a step in which setRecord writes the cells of a call of
\* replaceParameters whose mapping changes no parameter
IdentityMappingWritten ==
    \E j \in 1..Len(saves) :
        /\ saves[j].pc = "write"
        /\ saves' = RemoveAt(saves, j)
        /\ Len(runs') = Len(runs) + 1
        /\ \A name \in DOMAIN saves[j].replacements :
              \A k \in DOMAIN saves[j].replacements[name] :
                 saves[j].replacements[name][k] = Num(k)

\* C25: a write with a mapping in which no entry changes its parameter
\* leaves every cell of the host as it was read.
C25_IdentityWriteKeepsCells ==
    [][ IdentityMappingWritten => table' = table ]_vars

\* the entries that change their parameter and whose parameter no other
\* entry produces
RemappedAway(m) ==
    {k \in DOMAIN m : m[k] # Num(k) /\ \A j \in DOMAIN m \ {k} : m[j] # Num(k)}

\* C30: when the loop over the entries is done, the extractor finds in the
\* new text no token with the value of a parameter that was remapped and is
\* produced by no other entry, however the token was spelled.
C30_RemappedValuesAreGone ==
    applied = Cardinality(DOMAIN entries) =>
        \A k \in RemappedAway(entries) :
            \A i \in 1..Len(ExtractNumbers(newText)) : ExtractNumbers(newText)[i] # k

-----------------------------------------------------------------------------
(* Claims about the save of the edit modal *)

\* the entered strings of the modal
EnteredValues ==
    UNION {{groupReplacements[g].map[k] : k \in DOMAIN groupReplacements[g].map} :
              g \in 1..Len(groupReplacements)}

\* a step that is a click on the save button
SaveClicked == saveClicks' = saveClicks + 1

\* the click was turned down: nothing was handed to replaceParameters, the
\* host was not written, the entered strings are as they were, the modal is
\* open on the same record and shows the validation error
SaveRejected ==
    /\ saves' = saves
    /\ runs' = runs
    /\ table' = table
    /\ groupReplacements' = groupReplacements
    /\ parameterGroups' = parameterGroups
    /\ editingRecord' = editingRecord
    /\ editingRecord' # <<>>
    /\ errorMessage' = "invalidValue"

\* a string with a character that no numeral holds
HasNonNumericChar(v) == \E i \in 1..Len(v) : ~IsDigit(v[i]) /\ v[i] \notin {".", " "}

\* a mapping as the function it stands for: the identity outside its keys
MapValue(m, x) == IF IsInteger(x) /\ x.int \in DOMAIN m THEN m[x.int] ELSE x

\* C4: every mapping handed by handleSave to replaceParameters is
\* idempotent: for every key x, m(m(x)) = m(x), m being the identity on
\* values that are not keys.
C4_HandedMappingIdempotent ==
    \A j \in 1..Len(saves) :
       \A name \in DOMAIN saves[j].replacements :
          LET m == saves[j].replacements[name]
          IN  \A x \in DOMAIN m : MapValue(m, MapValue(m, Num(x))) = MapValue(m, Num(x))

\* C5: a click on save while an entered value is empty or holds a character
\* no numeral holds (such as "abc") is turned down: replaceParameters is not
\* called, the host is not written, the texts and the entered values stay,
\* the error message is set and the modal stays open.
C5_InvalidEntryRejectsSave ==
    [][ (SaveClicked /\ \E v \in EnteredValues : v = <<>> \/ HasNonNumericChar(v))
            => SaveRejected ]_vars

\* C5 witness: save was clicked with "abc" entered; the modal shows the
\* validation error, nothing is in flight and the table is as the last run read it
C5_Witness ==
    /\ saveClicks = 1
    /\ <<"a", "b", "c">> \in EnteredValues
    /\ editingRecord # <<>>
    /\ errorMessage = "invalidValue"
    /\ saves = <<>>
    /\ runs = <<>>
    /\ table = lastRun.allRecords

\* the decimal numeral of an integer
IsIntegerNumeral(v) == v # <<>> /\ AllDigits(v)

\* C6: a click on save while an entered value is not the decimal numeral of
\* an integer (a blank string, a fraction, any other text) is turned down
\* with the validation error.
C6_NonIntegerEntryRejectsSave ==
    [][ (SaveClicked /\ \E v \in EnteredValues : ~IsIntegerNumeral(v))
            => SaveRejected ]_vars

\* the modal is closed and its state is gone
ModalClosed ==
    /\ editingRecord' = <<>>
    /\ parameterGroups' = <<>>
    /\ groupReplacements' = <<>>

\* the click was accepted: replaceParameters was called once, for the record
\* of the modal, with a mapping for every listed field of the record that has
\* a number for every token of the field, and the modal is closed
SaveAccepted ==
    /\ Len(saves') = Len(saves) + 1
    /\ SubSeq(saves', 1, Len(saves)) = saves
    /\ ModalClosed
    /\ LET call == saves'[Len(saves')]
           diffs == editingRecord[1].differences
       IN  /\ call.pc = "meta"
           /\ call.recordId = editingRecord[1].recordId
           /\ DOMAIN call.replacements = {diffs[i].fieldName : i \in 1..Len(diffs)}
           /\ \A i \in 1..Len(diffs) :
                 LET m == call.replacements[diffs[i].fieldName]
                 IN  /\ DOMAIN m = {diffs[i].parameters[n] :
                                        n \in 1..Len(diffs[i].parameters)}
                     /\ \A k \in DOMAIN m : ~m[k].nan

\* C19: a click on save in the open modal is either turned down (the modal
\* stays open on its record with the validation error, replaceParameters is
\* not called) or accepted (replaceParameters is called once with a number
\* for every token of every listed field, and the modal closes), never both;
\* replaceParameters is called by no other step; and the only other step
\* that ends the editing of the record is the cancel, which closes the modal
\* and calls nothing.
C19_EditWorkflow ==
    [][ /\ SaveClicked =>
              /\ editingRecord # <<>>
              /\ SaveRejected \/ SaveAccepted
              /\ ~(SaveRejected /\ SaveAccepted)
        /\ Len(saves') > Len(saves) => SaveClicked
        /\ (editingRecord # <<>> /\ editingRecord' # editingRecord /\ ~SaveClicked) =>
              /\ ModalClosed
              /\ saves' = saves ]_vars

\* C19 witness: an edit was entered and saved; the modal is closed and the
\* call of replaceParameters is in flight
C19_Witness ==
    /\ saveClicks = 1
    /\ edits > 0
    /\ editingRecord = <<>>
    /\ Len(saves) = 1
    /\ saves[1].pc = "meta"

\* the entered mapping of a group has a cycle: some parameters, two or more,
\* are each sent to another one of them
HasCycle(map) ==
    \E S \in SUBSET DOMAIN map :
        /\ Cardinality(S) >= 2
        /\ \A k \in S :
              /\ Number(map[k]) # Num(k)
              /\ \E j \in S : Number(map[k]) = Num(j)

\* C20: when the mapping entered in the modal has a cycle, the modal tells
\* of the automatic fix (autoFixed with its message), the mapping counts as
\* valid, and the modal still answers: save is available.
C20_CycleIsReportedAsNotice ==
    (editingRecord # <<>> /\ \E g \in 1..Len(groupReplacements) :
                                HasCycle(groupReplacements[g].map))
        => /\ autoFixed
           /\ errorMessage = "circularFixed"
           /\ isValid
           /\ ~hung

-----------------------------------------------------------------------------
(* Claims about the edit sessions *)

\* a step that opens the modal on a reported record
EditorOpens == editingRecord = <<>> /\ editingRecord' # <<>>

\* a step that closes the modal without a click on save
EditorCancelled == editingRecord # <<>> /\ editingRecord' = <<>> /\ ~SaveClicked

\* the tokens of the listed fields of a reported record
TokensOfRecord(rec) ==
    UNION {{rec.differences[i].parameters[n] : n \in 1..Len(rec.differences[i].parameters)} :
              i \in 1..Len(rec.differences)}

\* every entry of the mapping sends a token to its own numeral
IsIdentityMapping(replacements) ==
    \A g \in 1..Len(replacements) :
        \A k \in DOMAIN replacements[g].map : replacements[g].map[k] = IntToText(k)

\* C21: closing the modal without saving writes nothing to the host, calls
\* nothing and leaves the comparison results as they were; every opening of
\* the modal, also after a discarded session, starts from the identity
\* mapping over the tokens of the record, with no message shown, and leaves
\* the results and the host as they were.
C21_SessionsIndependent ==
    [][ /\ EditorCancelled =>
              /\ UNCHANGED <<table, comparisons, saves, runs, toastMessage>>
              /\ groupReplacements' = <<>>
        /\ EditorOpens =>
              /\ IsIdentityMapping(groupReplacements')
              /\ UNION {DOMAIN groupReplacements'[g].map :
                            g \in 1..Len(groupReplacements')}
                    = TokensOfRecord(editingRecord'[1])
              /\ errorMessage' = "" /\ ~autoFixed'
              /\ UNCHANGED <<table, comparisons, saves, runs>> ]_vars

\* C21 witness: one value was entered and the save turned down, the session
\* was then discarded, and the modal is open again on the identity mapping
C21_Witness ==
    /\ edits = 1
    /\ saveClicks = 1
    /\ saves = <<>>
    /\ toastMessage = ""
    /\ table = lastRun.allRecords
    /\ editingRecord # <<>>
    /\ errorMessage = ""
    /\ IsIdentityMapping(groupReplacements)

-----------------------------------------------------------------------------
(* Claims about the parameter groups *)

\* two token lists are identical when sorted: each value occurs as often in
\* the one as in the other
SameWhenSorted(p, q) ==
    \A v \in {p[i] : i \in 1..Len(p)} \cup {q[i] : i \in 1..Len(q)} :
        Count(p, v) = Count(q, v)

\* the places (group, position) at which the groups hold a field name
PlacesInGroups(name) ==
    {pl \in (1..Len(parameterGroups)) \X (1..Len(editingRecord[1].differences)) :
        /\ pl[2] <= Len(parameterGroups[pl[1]].fields)
        /\ parameterGroups[pl[1]].fields[pl[2]] = name}

GroupOfField(name) == (CHOOSE pl \in PlacesInGroups(name) : TRUE)[1]

\* C26: the groups of the modal partition the listed fields of its record:
\* every listed field is held once, the groups hold nothing else and none
\* is empty, and two listed fields are in the same group exactly when their
\* token lists are identical when sorted.
C26_GroupsPartitionFields ==
    editingRecord # <<>> =>
        LET diffs == editingRecord[1].differences
            names == {diffs[i].fieldName : i \in 1..Len(diffs)}
        IN  /\ \A name \in names : Cardinality(PlacesInGroups(name)) = 1
            /\ \A g \in 1..Len(parameterGroups) :
                  /\ parameterGroups[g].fields # <<>>
                  /\ Len(parameterGroups[g].fields) <= Len(diffs)
                  /\ \A i \in 1..Len(parameterGroups[g].fields) :
                        parameterGroups[g].fields[i] \in names
            /\ \A i, j \in 1..Len(diffs) :
                  (GroupOfField(diffs[i].fieldName) = GroupOfField(diffs[j].fieldName))
                      <=> SameWhenSorted(diffs[i].parameters, diffs[j].parameters)

\* C26 witness: the modal is open on a record whose two listed fields hold
\* the same tokens in different orders in their texts: one group of both
C26_Witness ==
    /\ editingRecord # <<>>
    /\ Len(editingRecord[1].differences) = 2
    /\ Len(parameterGroups) = 1
    /\ Len(parameterGroups[1].fields) = 2
    /\ \E i \in 1..Len(table) :
          /\ table[i].recordId = editingRecord[1].recordId
          /\ table[i].fields["fldA"] # table[i].fields["fldB"]

\* the entered mapping of the group of a listed field
EnteredMappingOf(name) ==
    LET paramKey == parameterGroups[GroupOfField(name)].paramKey
    IN  groupReplacements[CHOOSE h \in 1..Len(groupReplacements) :
                              groupReplacements[h].paramKey = paramKey].map

\* the mapping that an accepted save hands over for a listed field has the
\* distinct tokens of the field as its keys and the numbers of the entered
\* strings of the field's group as its values; integersOnly asks for the
\* values to be integers
HandedMappingsAreGroupMappings(integersOnly) ==
    LET call == saves'[Len(saves')]
        diffs == editingRecord[1].differences
    IN  \A i \in 1..Len(diffs) :
            LET m == call.replacements[diffs[i].fieldName]
                entered == EnteredMappingOf(diffs[i].fieldName)
            IN  /\ DOMAIN m = {diffs[i].parameters[n] : n \in 1..Len(diffs[i].parameters)}
                /\ DOMAIN entered = DOMAIN m
                /\ \A k \in DOMAIN m :
                      /\ m[k] = Number(entered[k])
                      /\ integersOnly => IsInteger(m[k])

\* C27: on an accepted save every field of a group receives the same
\* mapping: the entered mapping of its group converted to integers, with
\* the distinct tokens of the group as its keys.
C27_GroupMappingAppliedToAllFields ==
    [][ (SaveClicked /\ Len(saves') = Len(saves) + 1)
            => HandedMappingsAreGroupMappings(TRUE) ]_vars

\* the same without the integers: the values are the numbers the entered
\* strings convert to
GroupMappingSharedAsNumbers ==
    [][ (SaveClicked /\ Len(saves') = Len(saves) + 1)
            => HandedMappingsAreGroupMappings(FALSE) ]_vars

-----------------------------------------------------------------------------
(* Claims about the field selection *)

\* C29: selectedFields holds exactly the ids of the options whose selected
\* flag is true, each once, and never the index field, the first field of
\* the view.
C29_SelectionMatchesOptions ==
    /\ {selectedFields[i] : i \in 1..Len(selectedFields)}
          = {fieldOptions[i].id : i \in {j \in 1..Len(fieldOptions) : fieldOptions[j].selected}}
    /\ \A i, j \in 1..Len(selectedFields) :
          selectedFields[i] = selectedFields[j] => i = j
    /\ \A i \in 1..Len(selectedFields) : selectedFields[i] # FieldMetaList[1]

\* C29 witness: after the initialisation the first option was switched off
\* and on again: both options are selected and selectedFields lists the
\* second one first
C29_Witness ==
    /\ Len(fieldOptions) = 2
    /\ \A i \in 1..2 : fieldOptions[i].selected
    /\ selectedFields = <<fieldOptions[2].id, fieldOptions[1].id>>

====
